---- MODULE Spec2Model ----
(***************************************************************************)
(* Model of the resume evaluator of hiring-agent (src/evaluator.py, with   *)
(* the validation schema of src/models.py).                                *)
(*                                                                         *)
(* One ResumeEvaluator object serves a sequence of evaluate_resume and     *)
(* evaluate_resume_from_json calls.  A call records the resume on the      *)
(* object, sends the prompt to the engine and then, in one synchronous     *)
(* run, extracts a JSON object from the reply, completes it when keys are  *)
(* missing, validates it and builds the EvaluationResult.                  *)
(*                                                                         *)
(* Representation.                                                         *)
(*   A Python dict whose order or nesting matters is a sequence of entries *)
(*   [k, t, v]: key, type tag and value.  The tags are "str", "num",       *)
(*   "list", "rec" (a dict of scalars, held as a TLA+ record whose DOMAIN  *)
(*   is the dict's key set) and "obj" (a dict held as a sequence of        *)
(*   entries).  isinstance(x, dict) is t \in {"rec", "obj"}.               *)
(*   A text is held by what the code looks at: an evidence string is the   *)
(*   sequence of its phrases, a resume text the sequence of its lines,     *)
(*   each a sequence of words, and an engine reply the JSON document it    *)
(*   carries together with the brace characters of its text.               *)
(*   Scores are integers (the code uses floats; every score drawn here is  *)
(*   integral, and the percentage tests are taken exactly).                *)
(*                                                                         *)
(* Beside the evaluator (Spec) the module holds three more specifications  *)
(* over the same variables, each leaving the other components idle:        *)
(*   SpecUtility    the cleaning, date, profile and section-mapping        *)
(*                  functions of src/llm_utils.py, src/transform.py and    *)
(*                  src/pdf.py, each applied to one input;                 *)
(*   SpecAssembler  PDFHandler._extract_all_sections_separately of         *)
(*                  src/pdf.py, one step for each section extraction;      *)
(*   SpecGithub     generate_projects_json of src/github.py.               *)
(* The data json.loads gives in these three is held as values [t, v].      *)
(***************************************************************************)
EXTENDS Integers, Sequences, FiniteSets, TLC

----------------------------------------------------------------------------
(* Program constants *)

MAX_BONUS_POINTS == 20
MIN_FINAL_SCORE == -20
MAX_FINAL_SCORE == 120
MAX_TOTAL_SCORE == 100
MAX_OPEN_SOURCE == 35
MAX_SELF_PROJECTS == 30
MAX_PRODUCTION == 25
MAX_TECHNICAL_SKILLS == 10
CAPPED_SCORE == 10
MAX_STRENGTHS == 5
MAX_IMPROVEMENTS == 3
NAME_SCAN_LINES == 5
NAME_MAX_WORDS == 4

Categories == <<"open_source", "self_projects", "production", "technical_skills">>

CategorySet == {Categories[i] : i \in 1..Len(Categories)}

FixedMax(c) ==
    CASE c = "open_source" -> MAX_OPEN_SOURCE
      [] c = "self_projects" -> MAX_SELF_PROJECTS
      [] c = "production" -> MAX_PRODUCTION
      [] c = "technical_skills" -> MAX_TECHNICAL_SKILLS

----------------------------------------------------------------------------
(* Python dicts as entry sequences *)

Entry(k, t, v) == [k |-> k, t |-> t, v |-> v]

Has(d, k) == \E i \in 1..Len(d) : d[i].k = k

Idx(d, k) == CHOOSE i \in 1..Len(d) : d[i].k = k

Get(d, k) == d[Idx(d, k)]

Put(d, e) == IF Has(d, e.k) THEN [d EXCEPT ![Idx(d, e.k)] = e] ELSE Append(d, e)

IsDict(e) == e.t \in {"rec", "obj"}

HasKey(e, k) ==
    CASE e.t = "rec" -> k \in DOMAIN e.v
      [] e.t = "obj" -> Has(e.v, k)
      [] OTHER -> FALSE

\* the element of a one-element set; { f(x) : x \in {e} } holds f of e alone,
\* with e worked out once and named x
Only(S) == CHOOSE v \in S : TRUE

Min2(a, b) == IF a <= b THEN a ELSE b

Max2(a, b) == IF a >= b THEN a ELSE b

----------------------------------------------------------------------------
(* Evidence strings: sequences of phrases; str.lower() and substring tests *)

NO_DATA == <<"No data available">>
NO_EVIDENCE == <<"No evidence available">>
CAP_SUFFIX == <<" (Score capped at 10 due to only personal repositories)">>
EVIDENCE_SEP == <<" | ">>

Lower(p) ==
    CASE p = "Only personal GitHub repositories" -> "only personal github repositories"
      [] p = "No demonstrable open source activity" -> "no demonstrable open source activity"
      [] p = "Only Personal Projects" -> "only personal projects"
      [] p = "Lack of contributions to other projects" -> "lack of contributions to other projects"
      [] p = "Maintains widely used libraries" -> "maintains widely used libraries"
      [] p = "No data available" -> "no data available"
      [] p = "No evidence available" -> "no evidence available"
      [] p = " (Score capped at 10 due to only personal repositories)" ->
             " (score capped at 10 due to only personal repositories)"
      [] OTHER -> p

LowerText(ev) == [i \in 1..Len(ev) |-> Lower(ev[i])]

Contains(ev, phrase) == \E i \in 1..Len(ev) : ev[i] = phrase

STRENGTH_EXCLUSION_PHRASES ==
    { "no evidence of significant open source contributions",
      "no demonstrable open source activity",
      "only personal github repositories",
      "no contributions to other projects",
      "lack of contributions to other projects" }

ENFORCED_PHRASES ==
    { "only personal github repositories",
      "no contributions to other projects",
      "no evidence of significant open source contributions",
      "only personal projects" }

----------------------------------------------------------------------------
(* _generate_strengths_from_scores *)

OPEN_SOURCE_STRENGTHS ==
    { "Strong open source contributions with significant impact",
      "Active participation in open source projects",
      "Some open source involvement and community contributions" }

\* the same test on the evidence as written, the lower() forgotten
strength_excluded_as_written(evidence) ==
    \E p \in STRENGTH_EXCLUSION_PHRASES : Contains(evidence, p)

\* any(phrase in evidence.lower() for phrase in [...])
strength_excluded(evidence) ==
    \E p \in STRENGTH_EXCLUSION_PHRASES : Contains(LowerText(evidence), p)

open_source_strength(score, evidence) ==
    IF strength_excluded(evidence) THEN <<>>
    ELSE IF score >= 20 THEN <<"Strong open source contributions with significant impact">>
    ELSE IF score >= 15 THEN <<"Active participation in open source projects">>
    ELSE IF score >= 12 THEN <<"Some open source involvement and community contributions">>
    ELSE <<>>

self_projects_strength(score) ==
    IF score >= 20 THEN <<"Impressive portfolio of self-initiated projects">>
    ELSE IF score >= 10 THEN <<"Good variety of personal projects demonstrating technical skills">>
    ELSE IF score >= 5 THEN <<"Some personal projects showing initiative">>
    ELSE <<>>

production_strength(score) ==
    IF score >= 15 THEN <<"Significant production experience at scale">>
    ELSE IF score >= 10 THEN <<"Good production environment experience">>
    ELSE IF score >= 5 THEN <<"Some production-level work experience">>
    ELSE <<>>

technical_skills_strength(score) ==
    IF score >= 7 THEN <<"Strong technical skills across multiple technologies">>
    ELSE IF score >= 5 THEN <<"Good technical breadth and problem-solving abilities">>
    ELSE IF score >= 3 THEN <<"Demonstrated technical skills in relevant areas">>
    ELSE <<>>

\* the body of the loop over scores.items() for one item
strength_of(e) ==
    IF IsDict(e) /\ HasKey(e, "score") /\ HasKey(e, "evidence")
    THEN CASE e.k = "open_source" /\ e.v.score > 0 -> open_source_strength(e.v.score, e.v.evidence)
           [] e.k = "self_projects" /\ e.v.score > 0 -> self_projects_strength(e.v.score)
           [] e.k = "production" /\ e.v.score > 0 -> production_strength(e.v.score)
           [] e.k = "technical_skills" /\ e.v.score > 0 -> technical_skills_strength(e.v.score)
           [] OTHER -> <<>>
    ELSE <<>>

RECURSIVE strengths_loop(_, _)
strengths_loop(scores, i) ==
    IF i > Len(scores) THEN <<>>
    ELSE strength_of(scores[i]) \o strengths_loop(scores, i + 1)

\* sum(score_data.get('score', 0) for score_data in scores.values() if isinstance(score_data, dict))
RECURSIVE sum_scores(_, _)
sum_scores(scores, i) ==
    IF i > Len(scores) THEN 0
    ELSE (IF IsDict(scores[i]) /\ HasKey(scores[i], "score") THEN scores[i].v.score ELSE 0)
         + sum_scores(scores, i + 1)

\* the list handed back whole, the slice forgotten
WholeList(s) == s

Head5(s) == SubSeq(s, 1, Min2(Len(s), MAX_STRENGTHS))

Head3(s) == SubSeq(s, 1, Min2(Len(s), MAX_IMPROVEMENTS))

generate_strengths_from_scores(scores) ==
    LET strengths == strengths_loop(scores, 1)
    IN  IF strengths = <<>>
        THEN IF sum_scores(scores, 1) > 0
             THEN <<"Demonstrates technical capabilities and learning potential">>
             ELSE <<"Shows interest in software development">>
        ELSE Head5(strengths)

----------------------------------------------------------------------------
(* _generate_improvements_from_scores *)

\* percentage = (score / max_score * 100) if max_score > 0 else 0, compared
\* with a threshold: percentage < limit
pct_below(score, max_score, limit) ==
    IF max_score > 0 THEN score * 100 < limit * max_score ELSE 0 < limit

tiered(score, max_score, low, mid, high) ==
    IF pct_below(score, max_score, 70)
    THEN IF pct_below(score, max_score, 30) THEN <<low>>
         ELSE IF pct_below(score, max_score, 50) THEN <<mid>>
         ELSE <<high>>
    ELSE <<>>

improvement_of(e) ==
    IF IsDict(e) /\ HasKey(e, "score") /\ HasKey(e, "evidence")
    THEN LET score == e.v.score
             max_score == IF HasKey(e, "max") THEN e.v.max ELSE 0
         IN  CASE e.k = "open_source" ->
                    tiered(score, max_score,
                      "Significantly increase open source contributions and community engagement",
                      "Build more substantial open source presence and contributions",
                      "Enhance open source contributions and project impact")
               [] e.k = "self_projects" ->
                    tiered(score, max_score,
                      "Develop more complex and impactful personal projects",
                      "Create projects with better documentation and user adoption",
                      "Enhance project complexity and real-world impact")
               [] e.k = "production" ->
                    tiered(score, max_score,
                      "Gain more production environment experience",
                      "Seek opportunities for larger-scale production work",
                      "Expand production experience and responsibilities")
               [] e.k = "technical_skills" ->
                    tiered(score, max_score,
                      "Strengthen technical skills and problem-solving abilities",
                      "Develop broader technical expertise",
                      "Enhance technical depth and competitive programming skills")
               [] OTHER -> <<>>
    ELSE <<>>

RECURSIVE improvements_loop(_, _)
improvements_loop(scores, i) ==
    IF i > Len(scores) THEN <<>>
    ELSE improvement_of(scores[i]) \o improvements_loop(scores, i + 1)

generate_improvements_from_scores(scores) ==
    LET improvements == improvements_loop(scores, 1)
    IN  IF improvements = <<>>
        THEN IF sum_scores(scores, 1) < 50
             THEN <<"Focus on building a stronger technical portfolio">>
             ELSE <<"Continue developing technical skills and project impact">>
        ELSE Head3(improvements)

----------------------------------------------------------------------------
(* _enforce_scoring_rules *)

\* any(phrase in evidence for phrase in [...]) on the lower-cased evidence
rule_applies(evidence) ==
    \E p \in ENFORCED_PHRASES : Contains(LowerText(evidence), p)

enforce_scoring_rules(scores) ==
    IF Has(scores, "open_source") /\ IsDict(Get(scores, "open_source"))
    THEN LET e == Get(scores, "open_source")
             evidence == IF HasKey(e, "evidence") THEN e.v.evidence ELSE <<>>
             current_score == IF HasKey(e, "score") THEN e.v.score ELSE 0
         IN  IF rule_applies(evidence) /\ current_score > CAPPED_SCORE
             THEN Put(scores, Entry("open_source", "rec",
                        [e.v EXCEPT !.score = CAPPED_SCORE,
                                    !.evidence = e.v.evidence \o CAP_SUFFIX]))
             ELSE scores
    ELSE scores

----------------------------------------------------------------------------
(* The engine reply as text: its brace characters, in text order.          *)
(* A token is a brace; a brace that opens or closes a JSON object of the   *)
(* document carries that object's path (<<>> the document, <<i>> the value *)
(* of its i-th entry, <<i, j>> the j-th entry of that), a brace inside a   *)
(* string or inside a block that is no JSON carries real = FALSE.          *)

OpenBrace(path) == [c |-> "{", real |-> TRUE, path |-> path]

CloseBrace(path) == [c |-> "}", real |-> TRUE, path |-> path]

TextBrace(c) == [c |-> c, real |-> FALSE, path |-> <<>>]

\* the braces a string value holds
string_braces(s) ==
    CASE s = "}" -> <<TextBrace("}")>>
      [] s = "{" -> <<TextBrace("{")>>
      [] OTHER -> <<>>

RECURSIVE entries_tokens(_, _, _)
value_tokens(e, path) ==
    CASE e.t = "str" -> string_braces(e.v)
      [] e.t = "rec" -> <<OpenBrace(path), CloseBrace(path)>>
      [] e.t = "obj" -> <<OpenBrace(path)>> \o entries_tokens(e.v, path, 1) \o <<CloseBrace(path)>>
      [] OTHER -> <<>>

entries_tokens(d, path, i) ==
    IF i > Len(d) THEN <<>>
    ELSE value_tokens(d[i], path \o <<i>>) \o entries_tokens(d, path, i + 1)

\* the text of a reply: an optional leading block "{...}" that is no JSON,
\* then the document, whose last brace is missing when the text was cut off
reply_tokens(reply) ==
    CASE reply.kind = "object" ->
           LET all == <<OpenBrace(<<>>)>> \o entries_tokens(reply.doc, <<>>, 1)
                        \o <<CloseBrace(<<>>)>>
           IN  (IF reply.junk THEN <<TextBrace("{"), TextBrace("}")>> ELSE <<>>)
               \o (IF reply.cut THEN SubSeq(all, 1, Len(all) - 1) ELSE all)
      [] OTHER -> <<>>

----------------------------------------------------------------------------
(* re.search / re.findall of the object pattern on the text: an opening   *)
(* brace, then any number of brace-free blocks "{...}" separated by        *)
(* brace-free text, then a closing brace.                                  *)

\* the repeated inner group from position j: the position after the last group
RECURSIVE group_scan(_, _)
group_scan(ts, j) ==
    IF j + 1 <= Len(ts) /\ ts[j].c = "{" /\ ts[j + 1].c = "}"
    THEN group_scan(ts, j + 2)
    ELSE j

\* the end of the match that starts at i, 0 when there is none
match_end(ts, i) ==
    IF ts[i].c = "{"
    THEN LET j == group_scan(ts, i + 1)
         IN  IF j <= Len(ts) /\ ts[j].c = "}" THEN j ELSE 0
    ELSE 0

\* the first match at or after pos, as <<start, end>>; <<>> when none
RECURSIVE re_search(_, _)
re_search(ts, pos) ==
    IF pos > Len(ts) THEN <<>>
    ELSE IF match_end(ts, pos) > 0 THEN <<pos, match_end(ts, pos)>>
    ELSE re_search(ts, pos + 1)

RECURSIVE re_findall(_, _)
re_findall(ts, pos) ==
    Only({ IF m = <<>> THEN <<>> ELSE <<m>> \o re_findall(ts, m[2] + 1) :
           m \in {re_search(ts, pos)} })

\* json.loads of the matched text succeeds when the match is exactly one
\* object of the document
loads_ok(ts, m) ==
    /\ ts[m[1]].real /\ ts[m[2]].real
    /\ ts[m[1]].path = ts[m[2]].path

RecKeys == <<"score", "max", "evidence", "eviidence", "total", "breakdown", "reasons">>

\* a dict of scalars as entries
rec_entries(r) ==
    LET keys == SelectSeq(RecKeys, LAMBDA k : k \in DOMAIN r)
    IN  [i \in 1..Len(keys) |->
           Entry(keys[i], IF keys[i] \in {"score", "max", "total"} THEN "num" ELSE "str",
                 r[keys[i]])]

as_entries(e) == IF e.t = "obj" THEN e.v ELSE rec_entries(e.v)

\* the parsed object the matched text stands for
object_at(doc, path) ==
    CASE Len(path) = 0 -> doc
      [] Len(path) = 1 -> as_entries(doc[path[1]])
      [] OTHER -> as_entries(doc[path[1]].v[path[2]])

----------------------------------------------------------------------------
(* _complete_missing_fields *)

UNKNOWN_CANDIDATE == <<"Unknown", "Candidate">>

\* word[0].isupper()
UpperInitial(w) ==
    w \in { "Jane", "Doe", "Ravi", "Kumar", "Name:", "Email:", "Phone:", "Website:",
            "Not", "BASIC", "INFORMATION", "WORK", "EXPERIENCE", "PROJECTS",
            "Engineer", "Acme", "GSoC", "Senior", "Python", "Developer" }

\* line and len(line.split()) <= 4 and all(word[0].isupper() ...); every line
\* drawn here is shorter than 100 characters
name_like(line) ==
    /\ line # <<>>
    /\ Len(line) <= NAME_MAX_WORDS
    /\ \A i \in 1..Len(line) : UpperInitial(line[i])

\* line[5:].strip() if line.startswith("Name:") else line
name_of(line) == IF line[1] = "Name:" THEN Tail(line) ELSE line

RECURSIVE scan_name(_, _)
scan_name(lines, i) ==
    IF i > Min2(Len(lines), NAME_SCAN_LINES) THEN UNKNOWN_CANDIDATE
    ELSE IF name_like(lines[i]) THEN name_of(lines[i])
    ELSE scan_name(lines, i + 1)

infer_candidate_name(self) ==
    IF self.has_text THEN scan_name(self.text, 1) ELSE UNKNOWN_CANDIDATE

DefaultScore(c) == [score |-> 0, max |-> FixedMax(c), evidence |-> NO_DATA]

\* partial_json.get(c, {"score": 0, "max": ..., "evidence": "No data available"})
get_or_default(partial, c) ==
    IF Has(partial, c) THEN Entry(c, Get(partial, c).t, Get(partial, c).v)
    ELSE Entry(c, "rec", DefaultScore(c))

initial_scores(partial) ==
    IF Has(partial, "scores") THEN as_entries(Get(partial, "scores"))
    ELSE IF Has(partial, "open_source")
    THEN [i \in 1..Len(Categories) |-> get_or_default(partial, Categories[i])]
    ELSE [i \in 1..Len(Categories) |-> Entry(Categories[i], "rec", DefaultScore(Categories[i]))]

category_mapping(k) ==
    CASE k \in {"backend", "experience", "communication_skills", "production"} -> "production"
      [] k \in {"frontend", "projects", "self_projects"} -> "self_projects"
      [] k \in {"general", "skills", "programming_skills", "problem_solving_skills",
                "problem_solving", "technical_skills"} -> "technical_skills"
      [] OTHER -> k

evidence_or(r, default) == IF "evidence" \in DOMAIN r THEN r.evidence ELSE default

\* one pass of the loop over partial_json.items(); raised: the pass ends in a
\* KeyError or TypeError
merge_item(e, scores) ==
    IF ~(IsDict(e) /\ HasKey(e, "score")) THEN [raised |-> FALSE, scores |-> scores]
    ELSE LET mapped == category_mapping(e.k)
         IN  IF ~Has(scores, mapped) THEN [raised |-> FALSE, scores |-> scores]
             ELSE LET cur == Get(scores, mapped)
                  IN  IF ~(cur.t = "rec" /\ "score" \in DOMAIN cur.v /\ "max" \in DOMAIN cur.v)
                      THEN [raised |-> TRUE, scores |-> scores]
                      ELSE IF cur.v.score > 0
                      THEN [raised |-> FALSE,
                            scores |-> Put(scores, Entry(mapped, "rec",
                               [score |-> Min2(Max2(cur.v.score, e.v.score), cur.v.max),
                                max |-> cur.v.max,
                                evidence |-> evidence_or(cur.v, NO_EVIDENCE) \o EVIDENCE_SEP
                                             \o evidence_or(e.v, NO_EVIDENCE)]))]
                      ELSE [raised |-> FALSE,
                            scores |-> Put(scores, Entry(mapped, "rec",
                               [score |-> Min2(e.v.score, cur.v.max),
                                max |-> IF "max" \in DOMAIN e.v THEN e.v.max ELSE cur.v.max,
                                evidence |-> evidence_or(e.v, NO_EVIDENCE)]))]

RECURSIVE merge_loop(_, _, _)
merge_loop(partial, i, scores) ==
    IF i > Len(partial) THEN [raised |-> FALSE, scores |-> scores]
    ELSE Only({ IF r.raised THEN r ELSE merge_loop(partial, i + 1, r.scores) :
                r \in {merge_item(partial[i], scores)} })

\* the 'eviidence' key of a category renamed to 'evidence'
fix_eviidence(scores) ==
    [i \in 1..Len(scores) |->
       IF scores[i].t = "rec" /\ "eviidence" \in DOMAIN scores[i].v
       THEN Entry(scores[i].k, "rec",
              [f \in (DOMAIN scores[i].v \ {"eviidence"}) \cup {"evidence"} |->
                 IF f = "evidence" THEN scores[i].v.eviidence ELSE scores[i].v[f]])
       ELSE scores[i]]

\* 'GSoC' in s or 'Google Summer of Code' in s
mentions_gsoc(s) == s \in {"GSoC 2023 Compiler", "Google Summer of Code student"}

\* 'Girl Script Summer of Code' in s
mentions_gssoc(s) == s \in {"Girl Script Summer of Code mentor"}

\* 'github.com' in url
mentions_github(url) == url \in {"https://github.com/ravi"}

\* the project.name values the loops over projects look at
project_names(data) == {data.projects[i] : i \in 1..Len(data.projects)}

\* the work.name and work.summary values the loops over work look at
work_texts(data) ==
    {data.work[i].name : i \in 1..Len(data.work)}
    \cup {data.work[i].summary : i \in 1..Len(data.work)}

\* the bonus the fallback computes from self._last_resume_data
computed_bonus(self) ==
    IF ~self.has_data THEN 0
    ELSE LET d == self.data
         IN  (IF \E s \in project_names(d) : mentions_gsoc(s) THEN 5 ELSE 0)
             + (IF \E s \in work_texts(d) : mentions_gsoc(s) THEN 5 ELSE 0)
             + (IF \E s \in project_names(d) : mentions_gssoc(s) THEN 3 ELSE 0)
             + (IF \E s \in work_texts(d) : mentions_gssoc(s) THEN 3 ELSE 0)
             + (IF d.has_basics /\ mentions_github(d.url) THEN 2 ELSE 0)
             + (IF d.has_basics /\ \E i \in 1..Len(d.profiles) : d.profiles[i] \in {"LinkedIn", "linkedin"}
                THEN 1 ELSE 0)

NO_STRENGTHS_PLACEHOLDER == <<"No specific strengths identified">>
NO_AREAS_PLACEHOLDER == <<"No specific areas identified">>

list_or_empty(partial, k) == IF Has(partial, k) THEN Get(partial, k).v ELSE <<>>

\* the strengths the fallback returns, derived before the rules are enforced
fallback_strengths(partial, scores) ==
    LET given == list_or_empty(partial, "key_strengths")
    IN  IF given = <<>> \/ given = NO_STRENGTHS_PLACEHOLDER
        THEN generate_strengths_from_scores(scores) ELSE given

fallback_improvements(partial, scores) ==
    LET given == list_or_empty(partial, "areas_for_improvement")
    IN  IF given = <<>> \/ given = NO_AREAS_PLACEHOLDER
        THEN generate_improvements_from_scores(scores) ELSE given

\* scores = self._enforce_scoring_rules(scores), as _complete_missing_fields calls it
fallback_enforce(scores) == enforce_scoring_rules(scores)

\* the dict the fallback returns, from the scores its loops leave
completed(self, partial, scores) ==
    << Entry("candidate_name", "str", infer_candidate_name(self)),
       Entry("scores", "obj", fallback_enforce(scores)),
       IF Has(partial, "bonus_points") THEN Get(partial, "bonus_points")
       ELSE Entry("bonus_points", "rec", [total |-> computed_bonus(self)]),
       IF Has(partial, "deductions") THEN Get(partial, "deductions")
       ELSE Entry("deductions", "rec", [total |-> 0]),
       Entry("key_strengths", "list", fallback_strengths(partial, scores)),
       Entry("areas_for_improvement", "list", fallback_improvements(partial, scores)) >>

complete_missing_fields(self, partial) ==
    Only({ IF merged.raised THEN [raised |-> TRUE, value |-> <<>>, calls |-> <<>>]
           ELSE [raised |-> FALSE,
                 calls |-> <<"_enforce_scoring_rules">>,
                 value |-> Only({ completed(self, partial, scores) :
                                  scores \in {fix_eviidence(merged.scores)} })] :
           merged \in {merge_loop(partial, 1, initial_scores(partial))} })

----------------------------------------------------------------------------
(* _extract_json *)

\* the check both branches make on the parsed object, and the fallback
complete_if_missing(self, parsed) ==
    IF ~Has(parsed, "candidate_name") \/ ~Has(parsed, "scores")
    THEN Only({ [raised |-> c.raised, value |-> c.value, fallback |-> TRUE,
                 calls |-> <<"json.loads", "_complete_missing_fields">> \o c.calls] :
                c \in {complete_missing_fields(self, parsed)} })
    ELSE [raised |-> FALSE, value |-> parsed, fallback |-> FALSE, calls |-> <<"json.loads">>]

JSON_DECODE_ERROR == [raised |-> TRUE, value |-> <<>>, fallback |-> FALSE, calls |-> <<>>]

\* the except branch: the longest of all matches is parsed; whatever fails
\* there is swallowed and the first JSONDecodeError raised again
parse_longest(self, ts, reply, m) ==
    IF loads_ok(ts, m)
    THEN Only({ IF r.raised THEN JSON_DECODE_ERROR ELSE r :
                r \in {complete_if_missing(self, object_at(reply.doc, ts[m[1]].path))} })
    ELSE JSON_DECODE_ERROR

longest_match(self, ts, reply) ==
    Only({ IF all = <<>> THEN JSON_DECODE_ERROR
           ELSE parse_longest(self, ts, reply, all[Min2(reply.longest, Len(all))]) :
           all \in {re_findall(ts, 1)} })

\* the try branch on the first match m of the pattern in the text ts
parse_first(self, ts, reply, m) ==
    IF m # <<>>
    THEN IF loads_ok(ts, m)
         THEN complete_if_missing(self, object_at(reply.doc, ts[m[1]].path))
         ELSE longest_match(self, ts, reply)
    ELSE IF reply.kind = "array"
         \* json.loads gives a list; _complete_missing_fields calls .items() on it
         THEN [raised |-> TRUE, value |-> <<>>, fallback |-> TRUE,
               calls |-> <<"json.loads", "_complete_missing_fields">>]
         ELSE longest_match(self, ts, reply)

extract_json(self, reply) ==
    Only({ Only({ parse_first(self, ts, reply, m) : m \in {re_search(ts, 1)} }) :
           ts \in {reply_tokens(reply)} })

----------------------------------------------------------------------------
(* EvaluationData built from evaluation_dict: the schema of src/models.py.  *)
(* _create_evaluation_result reads data.candidate_name, a field the class  *)
(* of src/models.py does not declare; the Evaluation Result shape of the   *)
(* specification names it, and candidate_name_of stands for it.  The dict  *)
(* always has the key here: _extract_json returns a dict that has it.      *)
(* The breakdown and reasons strings of bonus_points and deductions are    *)
(* left out: every reply drawn here supplies them.                         *)

\* CategoryScore: score >= 0, max > 0, evidence of length >= 1
category_score_ok(e) ==
    /\ e.t = "rec"
    /\ {"score", "max", "evidence"} \subseteq DOMAIN e.v
    /\ e.v.score >= 0
    /\ e.v.max > 0
    /\ Len(e.v.evidence) >= 1

\* Scores: the four categories, each a CategoryScore
scores_ok(e) ==
    /\ e.t = "obj"
    /\ \A c \in CategorySet : Has(e.v, c) /\ category_score_ok(Get(e.v, c))

\* BonusPoints: 0 <= total <= 20
bonus_points_ok(e) ==
    e.t = "rec" /\ "total" \in DOMAIN e.v /\ e.v.total >= 0 /\ e.v.total <= MAX_BONUS_POINTS

\* Deductions: total >= 0
deductions_ok(e) == e.t = "rec" /\ "total" \in DOMAIN e.v /\ e.v.total >= 0

list_ok(e, most) == e.t = "list" /\ Len(e.v) >= 1 /\ Len(e.v) <= most

evaluation_data_ok(d) ==
    /\ Has(d, "scores") /\ scores_ok(Get(d, "scores"))
    /\ Has(d, "bonus_points") /\ bonus_points_ok(Get(d, "bonus_points"))
    /\ Has(d, "deductions") /\ deductions_ok(Get(d, "deductions"))
    /\ Has(d, "key_strengths") /\ list_ok(Get(d, "key_strengths"), MAX_STRENGTHS)
    /\ Has(d, "areas_for_improvement")
    /\ list_ok(Get(d, "areas_for_improvement"), MAX_IMPROVEMENTS)

\* the candidate_name the validated data carries
candidate_name_of(d) == Get(d, "candidate_name").v

\* the validated model; extra keys of the dict are dropped
EvaluationData(d) ==
    [ candidate_name |-> candidate_name_of(d),
      scores |-> [c \in CategorySet |->
                    LET r == Get(Get(d, "scores").v, c).v
                    IN  [score |-> r.score, max |-> r.max, evidence |-> r.evidence]],
      bonus_points |-> [total |-> Get(d, "bonus_points").v.total],
      deductions |-> [total |-> Get(d, "deductions").v.total],
      key_strengths |-> Get(d, "key_strengths").v,
      areas_for_improvement |-> Get(d, "areas_for_improvement").v ]

----------------------------------------------------------------------------
(* _create_evaluation_result and the EvaluationResult validators *)

BreakdownKeys == {"Open Source", "Self Projects", "Production", "Technical Skills", "Bonus Points"}

CategoryOf(k) ==
    CASE k = "Open Source" -> "open_source"
      [] k = "Self Projects" -> "self_projects"
      [] k = "Production" -> "production"
      [] k = "Technical Skills" -> "technical_skills"

total_score_of(data) ==
    data.scores["open_source"].score + data.scores["self_projects"].score
    + data.scores["production"].score + data.scores["technical_skills"].score

\* the sum with the deductions forgotten
final_score_without_deductions(data) == total_score_of(data) + data.bonus_points.total

final_score_of(data) == total_score_of(data) + data.bonus_points.total - data.deductions.total

\* total_score: float = Field(ge=0, le=100)
total_score_ok(v) == v >= 0 /\ v <= MAX_TOTAL_SCORE

\* the validator with the lower bound forgotten
validate_final_score_upper_only(v) == ~(v > MAX_FINAL_SCORE)

\* validate_final_score: raises when v < MIN_FINAL_SCORE or v > MAX_FINAL_SCORE
validate_final_score(v) == ~(v < MIN_FINAL_SCORE \/ v > MAX_FINAL_SCORE)

\* the dict of (number, text) pairs; the breakdown and reasons texts of the
\* last two pairs are left out, and 'Deductions' is there when the total is > 0
category_breakdown_of(data) ==
    [k \in BreakdownKeys \cup (IF data.deductions.total > 0 THEN {"Deductions"} ELSE {}) |->
       CASE k = "Bonus Points" -> <<data.bonus_points.total>>
         [] k = "Deductions" -> <<0 - data.deductions.total>>
         [] OTHER -> <<data.scores[CategoryOf(k)].score, data.scores[CategoryOf(k)].evidence>>]

create_evaluation_result(data) ==
    LET total_score == total_score_of(data)
        final_score == final_score_of(data)
    IN  [ raised |-> ~(total_score_ok(total_score) /\ validate_final_score(final_score)),
          value |->
            [ candidate_name |-> data.candidate_name,
              total_score |-> total_score,
              final_score |-> final_score,
              category_breakdown |-> category_breakdown_of(data),
              key_strengths |-> data.key_strengths,
              areas_for_improvement |-> data.areas_for_improvement ] ]

----------------------------------------------------------------------------
(* _convert_json_resume_to_text: the lines of the text, each a word list.  *)
(* The resume data drawn here has basics, work and projects only.          *)

NOT_PROVIDED == <<"Not", "provided">>

\* f"{i}." for the item numbers drawn here
Ordinal(i) == IF i = 1 THEN "1." ELSE IF i = 2 THEN "2." ELSE "3."

\* f"{profile.network}:" for the networks drawn here
WithColon(network) == IF network = "LinkedIn" THEN "LinkedIn:" ELSE "linkedin:"

or_not_provided(words) == IF words = <<>> THEN NOT_PROVIDED ELSE words

basics_lines(d) ==
    IF d.has_basics
    THEN << <<"===", "BASIC", "INFORMATION", "===">>,
            <<"Name:">> \o or_not_provided(d.name),
            <<"Email:">> \o NOT_PROVIDED,
            <<"Phone:">> \o NOT_PROVIDED,
            <<"Website:">> \o or_not_provided(IF d.url = "" THEN <<>> ELSE <<d.url>>) >>
         \o (IF d.profiles # <<>>
             THEN << <<"Profiles:">> >>
                  \o [i \in 1..Len(d.profiles) |-> <<"-", WithColon(d.profiles[i]), "user", "(url)">>]
             ELSE <<>>)
    ELSE <<>>

RECURSIVE work_lines(_, _)
work_lines(work, i) ==
    IF i > Len(work) THEN <<>>
    ELSE << <<Ordinal(i), work[i].position, "at", work[i].name>>,
            <<"Period:", "2020", "-", "2021">>,
            <<"Description:", work[i].summary>> >> \o work_lines(work, i + 1)

\* a section header "\n=== ... ===" opens with an empty line
work_section(d) ==
    IF d.work # <<>>
    THEN << <<>>, <<"===", "WORK", "EXPERIENCE", "===">> >> \o work_lines(d.work, 1)
    ELSE <<>>

projects_section(d) ==
    IF d.projects # <<>>
    THEN << <<>>, <<"===", "PROJECTS", "===">> >>
         \o [i \in 1..Len(d.projects) |-> <<Ordinal(i), d.projects[i]>>]
    ELSE <<>>

convert_json_resume_to_text(d) == basics_lines(d) \o work_section(d) \o projects_section(d)

----------------------------------------------------------------------------
(* Inputs: the resumes and the engine replies drawn *)

\* the most alias entries ("backend", "experience", ...) in one reply
MaxSignals == 2

ResumeTexts == { << <<"curriculum", "vitae">>, <<"Jane", "Doe">>, <<"python", "developer">> >> }

NO_RESUME_DATA ==
    [has_basics |-> FALSE, name |-> <<>>, url |-> "", profiles |-> <<>>,
     projects |-> <<>>, work |-> <<>>]

ResumeDatas ==
    { [has_basics |-> TRUE, name |-> <<"Ravi", "Kumar">>, url |-> "https://github.com/ravi",
       profiles |-> <<"LinkedIn">>, projects |-> <<"GSoC 2023 Compiler">>,
       work |-> << [position |-> "Engineer", name |-> "Acme",
                    summary |-> "Google Summer of Code student"] >>],
      [has_basics |-> FALSE, name |-> <<>>, url |-> "", profiles |-> <<>>,
       projects |-> <<"Girl Script Summer of Code mentor">>,
       work |-> << [position |-> "Senior", name |-> "Acme", summary |-> "backend"] >>] }

Cat(s, m, ev) == [score |-> s, max |-> m, evidence |-> ev]

PLAIN == <<"Maintains widely used libraries">>

\* what the engine may say about open source
OpenSourceOptions ==
    { Cat(s, MAX_OPEN_SOURCE, ev) :
        s \in {0, 8, 14, 20, 40},
        ev \in {PLAIN, <<"Only personal GitHub repositories">>} }
    \cup { Cat(14, MAX_OPEN_SOURCE, <<"Only Personal Projects">>),
           Cat(20, MAX_OPEN_SOURCE, <<"Only Personal Projects">>),
           Cat(14, MAX_OPEN_SOURCE, <<"No demonstrable open source activity">>),
           Cat(20, MAX_OPEN_SOURCE, <<"Lack of contributions to other projects">>),
           Cat(40, 50, PLAIN),
           Cat(20, MAX_OPEN_SOURCE, <<>>),
           Cat(0 - 5, MAX_OPEN_SOURCE, PLAIN),
           [score |-> 20, evidence |-> PLAIN],
           [score |-> 20, max |-> MAX_OPEN_SOURCE],
           [score |-> 20, max |-> MAX_OPEN_SOURCE,
            eviidence |-> <<"Only personal GitHub repositories">>] }

OpenSourceEntries == {<<>>} \cup {<<Entry("open_source", "rec", r)>> : r \in OpenSourceOptions}

\* what it may say about the other three categories
OtherEntries ==
    { <<>>,
      << Entry("self_projects", "rec", Cat(12, MAX_SELF_PROJECTS, PLAIN)),
         Entry("production", "rec", Cat(10, MAX_PRODUCTION, PLAIN)),
         Entry("technical_skills", "rec", Cat(5, MAX_TECHNICAL_SKILLS, PLAIN)) >>,
      << Entry("technical_skills", "rec", Cat(5, MAX_TECHNICAL_SKILLS, PLAIN)),
         Entry("production", "rec", Cat(20, 10, PLAIN)),
         Entry("self_projects", "rec", Cat(1, MAX_SELF_PROJECTS, PLAIN)) >>,
      << Entry("self_projects", "rec", Cat(33, MAX_SELF_PROJECTS, PLAIN)),
         Entry("production", "rec", Cat(30, MAX_PRODUCTION, PLAIN)),
         Entry("technical_skills", "rec", Cat(12, MAX_TECHNICAL_SKILLS, PLAIN)) >> }

SignalKeys == {"backend", "experience", "leadership"}

SignalValues ==
    { Cat(15, MAX_PRODUCTION, PLAIN), [score |-> 30, evidence |-> PLAIN],
      Cat(8, 10, PLAIN) }

RECURSIVE SignalSeqs(_)
SignalSeqs(n) ==
    IF n = 0 THEN {<<>>}
    ELSE SignalSeqs(n - 1)
         \cup { Append(q, Entry(k, "rec", v)) :
                  q \in {x \in SignalSeqs(n - 1) : Len(x) = n - 1},
                  k \in SignalKeys, v \in SignalValues }

Signals == {q \in SignalSeqs(MaxSignals) : \A i, j \in 1..Len(q) : i # j => q[i].k # q[j].k}

Bonus(n) == <<Entry("bonus_points", "rec", [total |-> n])>>

Deduct(n) == <<Entry("deductions", "rec", [total |-> n])>>

Lists(ks, ai) == <<Entry("key_strengths", "list", ks), Entry("areas_for_improvement", "list", ai)>>

GIVEN_LISTS == Lists(<<"Ships reliable services">>, <<"Write more tests">>)

\* the rest of the document: [bonus, tail] with bonus_points apart, since its
\* place before or after "scores" matters
Tails ==
    { [bonus |-> <<>>, tail |-> <<>>],
      [bonus |-> Bonus(5), tail |-> Deduct(3) \o GIVEN_LISTS],
      [bonus |-> Bonus(25), tail |-> Deduct(3) \o GIVEN_LISTS],
      [bonus |-> Bonus(5), tail |-> Deduct(30) \o GIVEN_LISTS],
      [bonus |-> <<>>, tail |-> Deduct(30) \o Lists(NO_STRENGTHS_PLACEHOLDER, NO_AREAS_PLACEHOLDER)],
      [bonus |-> Bonus(5), tail |-> Lists(<<"a", "b", "c", "d", "e", "f">>, <<"a", "b", "c", "d">>)] }

Names == {<<>>, <<Entry("candidate_name", "str", <<"Engine", "Name">>)>>}

\* string members that put a "}" before and a "{" after the category objects
SHIFT_OPEN == <<Entry("note", "str", "}")>>
SHIFT_CLOSE == <<Entry("remark", "str", "{")>>

ObjectReply(doc) == [kind |-> "object", doc |-> doc, junk |-> FALSE, cut |-> FALSE, longest |-> 1]

\* documents with a "scores" object holding category objects; shift: the
\* object opens with a string holding "}" and closes with one holding "{"
NestedDoc(os, others, t, n, shift, first) ==
    (IF first THEN t.bonus ELSE <<>>) \o n
    \o <<Entry("scores", "obj",
               (IF shift THEN SHIFT_OPEN ELSE <<>>) \o os \o others
               \o (IF shift THEN SHIFT_CLOSE ELSE <<>>))>>
    \o (IF first THEN <<>> ELSE t.bonus) \o t.tail

NAMED == <<Entry("candidate_name", "str", <<"Engine", "Name">>)>>

USUAL_TAIL == [bonus |-> Bonus(5), tail |-> Deduct(3) \o GIVEN_LISTS]

NestedDocs ==
    { NestedDoc(os, others, USUAL_TAIL, NAMED, FALSE, first) :
        os \in OpenSourceEntries, others \in OtherEntries, first \in BOOLEAN }
    \cup { NestedDoc(os, others, t, n, TRUE, FALSE) :
        os \in OpenSourceEntries, others \in OtherEntries, t \in Tails, n \in Names }

\* documents without one: categories and alias entries at the top level, and
\* at most a "scores" member that holds no objects
FlatScores ==
    { <<>>, <<Entry("scores", "obj", <<>>)>>,
      <<Entry("scores", "obj", <<Entry("open_source", "num", 20)>>)>> }

FlatTails == {t \in Tails : t.bonus # Bonus(25) /\ t.tail # Deduct(30) \o GIVEN_LISTS}

FlatDocs ==
    { n \o fs \o os \o others \o t.bonus \o t.tail :
        os \in OpenSourceEntries, others \in {od \in OtherEntries : Len(od) > 0 => od[1].v.score = 12},
        fs \in FlatScores, t \in FlatTails, n \in Names }

SignalOpenSource ==
    { <<>>, <<Entry("open_source", "rec", Cat(20, MAX_OPEN_SOURCE, PLAIN))>>,
      <<Entry("open_source", "rec", Cat(14, MAX_OPEN_SOURCE, <<"Only Personal Projects">>))>> }

\* documents with alias entries before or after the categories
SignalDocs ==
    { (IF first THEN sig ELSE <<>>) \o os \o others \o (IF first THEN <<>> ELSE sig) :
        os \in SignalOpenSource, others \in OtherEntries, sig \in Signals, first \in BOOLEAN }

SampleDocs ==
    { NestedDoc(os, others, t, NAMED, shift, first) :
        os \in {<<Entry("open_source", "rec", Cat(20, MAX_OPEN_SOURCE, PLAIN))>>},
        others \in {OD \in OtherEntries : Len(OD) > 0 => OD[1].v.score = 12},
        t \in {USUAL_TAIL},
        shift \in BOOLEAN, first \in BOOLEAN }
    \cup { <<Entry("open_source", "rec", Cat(20, MAX_OPEN_SOURCE, PLAIN))>>, NAMED }

\* the longest match of re.findall is any of them: the strings decide
Picks == 1..3

Replies ==
    { ObjectReply(d) : d \in NestedDocs \cup FlatDocs \cup SignalDocs }
    \cup { [kind |-> "object", doc |-> d, junk |-> j, cut |-> c, longest |-> l] :
             d \in SampleDocs, j \in BOOLEAN, c \in BOOLEAN, l \in Picks }
    \cup { [kind |-> k, doc |-> <<>>, junk |-> FALSE, cut |-> FALSE, longest |-> 1] :
             k \in {"prose", "array"} }

----------------------------------------------------------------------------
(* Engine replies as texts, and their cleaning                              *)
(*                                                                          *)
(* A reply text is the sequence of its pieces: the reasoning delimiters,   *)
(* the code-fence markers, a run of whitespace, a brace, or any other run  *)
(* of characters.  str.find gives 0 here where Python gives -1.            *)

THINK_OPEN == "<think>"
THINK_CLOSE == "</think>"
\* the code-fence marker is three grave accents, written <fence> here
FENCE_JSON == "<fence>json"
FENCE == "<fence>"
WS == " "
LBRACE == "{"
RBRACE == "}"

RECURSIVE lstrip(_, _)
lstrip(t, c) == IF t # <<>> /\ Head(t) = c THEN lstrip(Tail(t), c) ELSE t

RECURSIVE rstrip(_, _)
rstrip(t, c) ==
    IF t # <<>> /\ t[Len(t)] = c THEN rstrip(SubSeq(t, 1, Len(t) - 1), c) ELSE t

strip(t) == rstrip(lstrip(t, WS), WS)

find(t, c) ==
    IF \E i \in 1..Len(t) : t[i] = c
    THEN CHOOSE i \in 1..Len(t) : t[i] = c /\ \A j \in 1..(i - 1) : t[j] # c
    ELSE 0

rfind(t, c) ==
    IF \E i \in 1..Len(t) : t[i] = c
    THEN CHOOSE i \in 1..Len(t) : t[i] = c /\ \A j \in (i + 1)..Len(t) : t[j] # c
    ELSE 0

startswith(t, c) == t # <<>> /\ t[1] = c

endswith(t, c) == t # <<>> /\ t[Len(t)] = c

\* response_text[:think_start] + response_text[think_end + 8:], for the first
\* opening and the first closing delimiter, whichever comes first
without_think(t) ==
    IF find(t, THINK_OPEN) # 0 /\ find(t, THINK_CLOSE) # 0
    THEN SubSeq(t, 1, find(t, THINK_OPEN) - 1)
             \o SubSeq(t, find(t, THINK_CLOSE) + 1, Len(t))
    ELSE t

without_json_fence(t) == IF startswith(t, FENCE_JSON) THEN Tail(t) ELSE t

without_any_fence(t) ==
    IF startswith(t, FENCE_JSON) \/ startswith(t, FENCE) THEN Tail(t) ELSE t

without_last_fence(t) == IF endswith(t, FENCE) THEN SubSeq(t, 1, Len(t) - 1) ELSE t

\* the text from the first "{" to the last "}" when both are there
object_span(t) ==
    IF find(t, LBRACE) # 0 /\ rfind(t, RBRACE) # 0
    THEN SubSeq(t, find(t, LBRACE), rfind(t, RBRACE))
    ELSE t

\* llm_utils.extract_json_from_response
extract_json_from_response(response_text) ==
    without_last_fence(without_json_fence(without_think(strip(response_text))))

\* the cleaning _call_llm_for_section does before json.loads
cleaned_response(response_text) ==
    object_span(strip(without_last_fence(without_any_fence(
        without_think(strip(response_text))))))

----------------------------------------------------------------------------
(* Date ranges (src/transform.py)                                           *)
(*                                                                          *)
(* A date text is the sequence of its pieces: a month name, a year, "-",   *)
(* one blank, the word "onwards".  Python's None is the one-piece text     *)
(* None, which no input holds.                                             *)

None == <<"None">>
PRESENT == <<"Present">>
ONWARDS == "onwards"
DASH == "-"
JANUARY_SUFFIX == "-01"
DECEMBER_SUFFIX == "-12"

MONTHS == {"Jan", "Feb", "Mar", "Apr", "May", "Jun", "Jul", "Aug", "Sep", "Oct", "Nov", "Dec"}

\* str.split(sep): the parts between the occurrences of sep, empty ones too
RECURSIVE split(_, _)
split(t, sep) ==
    IF find(t, sep) = 0
    THEN <<t>>
    ELSE <<SubSeq(t, 1, find(t, sep) - 1)>>
             \o split(SubSeq(t, find(t, sep) + 1, Len(t)), sep)

\* str.replace(c, "")
without(t, c) == SelectSeq(t, LAMBDA p : p # c)

names_month(t) == \E i \in 1..Len(t) : t[i] \in MONTHS

onwards_range(start_part) ==
    IF start_part # <<>> THEN <<start_part, PRESENT>> ELSE <<None, PRESENT>>

month_range(parts) ==
    IF find(parts[1], DASH) # 0 /\ Len(split(parts[1], DASH)) = 2
    THEN << split(parts[1], DASH)[1] \o <<WS>> \o parts[Len(parts)],
            split(parts[1], DASH)[2] \o <<WS>> \o parts[Len(parts)] >>
    ELSE << parts[1] \o <<WS>> \o parts[Len(parts)], None >>

year_range_same_suffix(start_year, end_year) ==
    << start_year \o <<JANUARY_SUFFIX>>, end_year \o <<JANUARY_SUFFIX>> >>

year_range(start_year, end_year) ==
    << start_year \o <<JANUARY_SUFFIX>>, end_year \o <<DECEMBER_SUFFIX>> >>

parse_date_range(date_range) ==
    IF date_range = <<>>
    THEN <<None, None>>
    ELSE IF find(date_range, ONWARDS) # 0
    THEN onwards_range(strip(without(date_range, ONWARDS)))
    ELSE IF find(date_range, WS) # 0 /\ names_month(date_range)
    THEN month_range(split(date_range, WS))
    ELSE IF find(date_range, DASH) # 0 /\ Len(split(date_range, DASH)) = 2
    THEN year_range(split(date_range, DASH)[1], split(date_range, DASH)[2])
    ELSE <<None, None>>

----------------------------------------------------------------------------
(* Profile URLs (src/transform.py)                                          *)
(*                                                                          *)
(* A URL is the sequence of its pieces: "://", "/", "www.", a host name,   *)
(* "?" and any other run of characters.  A host name may also stand in the *)
(* path, as part of a longer name.                                         *)

SCHEME_SEP == "://"
SLASH == "/"
WWW == "www."
NO_NETWORK == ""

domain_mapping ==
    [d \in {"github.com", "linkedin.com", "leetcode.com", "stackoverflow.com",
            "hackerrank.com", "behance.net", "dev.to", "twitter.com", "x.com"} |->
        CASE d = "github.com" -> "GitHub"
          [] d = "linkedin.com" -> "LinkedIn"
          [] d = "leetcode.com" -> "LeetCode"
          [] d = "stackoverflow.com" -> "Stack Overflow"
          [] d = "hackerrank.com" -> "HackerRank"
          [] d = "behance.net" -> "Behance"
          [] d = "dev.to" -> "DEV Community"
          [] d = "twitter.com" -> "X"
          [] d = "x.com" -> "X"]

after_scheme(url) == IF find(url, SCHEME_SEP) # 0 THEN split(url, SCHEME_SEP)[2] ELSE url

without_www(domain) == IF startswith(domain, WWW) THEN Tail(domain) ELSE domain

extract_domain_from_url(url) == without_www(split(after_scheme(url), SLASH)[1])

\* a domain of the table is one piece
get_network_name(domain) ==
    IF Len(domain) = 1 /\ domain[1] \in DOMAIN domain_mapping
    THEN domain_mapping[domain[1]]
    ELSE NO_NETWORK

nonempty_parts(parts) == SelectSeq(parts, LAMBDA p : p # <<>>)

first_part(parts) == IF Len(parts) >= 1 THEN parts[1] ELSE <<>>

\* parts[1], parts[2], parts[0]; an IndexError gives ""
username_part(parts, domain) ==
    CASE domain = <<"linkedin.com">> -> IF Len(parts) >= 2 THEN parts[2] ELSE <<>>
      [] domain = <<"stackoverflow.com">> -> IF Len(parts) >= 3 THEN parts[3] ELSE <<>>
      [] OTHER -> first_part(parts)

\* called with a domain of the table only
extract_username_from_url(url, domain) ==
    IF Len(domain) = 1 /\ find(url, domain[1]) # 0
    THEN username_part(
             nonempty_parts(split(lstrip(split(url, domain[1])[2], SLASH), SLASH)),
             domain)
    ELSE <<>>

\* one dict of basics.profiles: the keys url, network and username, an
\* absent key and a null value both held as None
inferred_profile(profile, domain) ==
    IF get_network_name(domain) = NO_NETWORK
    THEN profile
    ELSE IF extract_username_from_url(profile.url, domain) # <<>>
    THEN [profile EXCEPT !.network = <<get_network_name(domain)>>,
                         !.username = extract_username_from_url(profile.url, domain)]
    ELSE [profile EXCEPT !.network = <<get_network_name(domain)>>]

transformed_profile(profile) ==
    IF profile.url \notin {None, <<>>} /\ profile.network = None
    THEN inferred_profile(profile, extract_domain_from_url(profile.url))
    ELSE profile

\* basics_data: [name, profiles], profiles a sequence of items
\* [dict |-> TRUE, url, network, username] or [dict |-> FALSE] (a bare string)
transform_basics(basics_data) ==
    [basics_data EXCEPT !.profiles =
        Only({ [i \in 1..Len(kept) |-> transformed_profile(kept[i])] :
               kept \in {SelectSeq(basics_data.profiles, LAMBDA p : p.dict)} })]

----------------------------------------------------------------------------
(* Parsed section data (src/pdf.py)                                         *)
(*                                                                          *)
(* A value json.loads gives is [t, v]: t is "none", "bool", "num", "str",  *)
(* "list" or "dict"; v is the pieces of a string, the sequence of a list's *)
(* items, or the function from a dict's keys to its values.                *)

PyNone == [t |-> "none", v |-> <<>>]
PyTrue == [t |-> "bool", v |-> <<>>]
Num(n) == [t |-> "num", v |-> n]
Str(pieces) == [t |-> "str", v |-> pieces]
List(items) == [t |-> "list", v |-> items]
Dict(entries) == [t |-> "dict", v |-> entries]

EMPTY_STR == Str(<<>>)
EMPTY_LIST == List(<<>>)
EMPTY_DICT == Dict(<<>>)

\* bool(x)
truthy(x) ==
    CASE x.t = "none" -> FALSE
      [] x.t = "bool" -> TRUE
      [] x.t = "num" -> x.v # 0
      [] x.t = "str" -> x.v # <<>>
      [] x.t = "list" -> x.v # <<>>
      [] x.t = "dict" -> DOMAIN x.v # {}

\* d.get(k, default) for the entries d of a dict
get(d, k, default) == IF k \in DOMAIN d THEN d[k] ELSE default

\* dict.update
update(d, other) ==
    [k \in DOMAIN d \cup DOMAIN other |-> IF k \in DOMAIN other THEN other[k] ELSE d[k]]

\* for item in x: a list gives its items, a dict its keys and a string its
\* characters (none of them a dict), anything else raises TypeError
iterable(x) == x.t \in {"list", "dict", "str"}

dict_items(x) == IF x.t = "list" THEN SelectSeq(x.v, LAMBDA item : item.t = "dict") ELSE <<>>

\* str(x) of a number or a string
str_of(x) == IF x.t = "num" THEN Str(<<ToString(x.v)>>) ELSE x

RECURSIVE join(_, _)
join(items, sep) ==
    IF items = <<>> THEN <<>>
    ELSE IF Len(items) = 1 THEN items[1].v
    ELSE items[1].v \o <<sep>> \o join(Tail(items), sep)

all_str(x) == \A i \in 1..Len(x.v) : x.v[i].t = "str"

month_number(m) ==
    CASE m = <<"Jan">> -> "01" [] m = <<"Feb">> -> "02" [] m = <<"Mar">> -> "03"
      [] m = <<"Apr">> -> "04" [] m = <<"May">> -> "05" [] m = <<"Jun">> -> "06"
      [] m = <<"Jul">> -> "07" [] m = <<"Aug">> -> "08" [] m = <<"Sep">> -> "09"
      [] m = <<"Oct">> -> "10" [] m = <<"Nov">> -> "11" [] m = <<"Dec">> -> "12"
      [] OTHER -> ""

month_or(m, default) == IF month_number(m) = "" THEN default ELSE month_number(m)

last(parts) == parts[Len(parts)]

\* PDFHandler._parse_date_range: the start date only, as year-month
pdf_parse_date_range(date_range) ==
    IF date_range = <<>>
    THEN PyNone
    ELSE IF find(date_range, WS) # 0 /\ names_month(date_range)
    THEN Str(last(split(date_range, WS))
                 \o <<DASH, month_or(split(date_range, WS)[1], "01")>>)
    ELSE IF find(date_range, DASH) # 0 /\ Len(split(date_range, DASH)) = 2
    THEN Str(split(date_range, DASH)[1] \o <<JANUARY_SUFFIX>>)
    ELSE PyNone

\* PDFHandler._parse_end_date
pdf_parse_end_date(date_range) ==
    IF date_range = <<>>
    THEN PyNone
    ELSE IF find(date_range, ONWARDS) # 0
    THEN Str(PRESENT)
    ELSE IF /\ find(date_range, WS) # 0 /\ names_month(date_range)
            /\ Len(split(date_range, WS)) >= 3
    THEN Str(last(split(date_range, WS))
                 \o <<DASH, month_or(split(date_range, WS)[2], "12")>>)
    ELSE IF find(date_range, DASH) # 0 /\ Len(split(date_range, DASH)) = 2
    THEN Str(split(date_range, DASH)[2] \o <<DECEMBER_SUFFIX>>)
    ELSE PyNone

\* the description of a work item, a list joined with blanks (both files)
description_of(item) ==
    IF get(item, "description", EMPTY_STR).t = "list"
    THEN Str(join(item["description"].v, WS))
    ELSE get(item, "description", EMPTY_STR)

pdf_work_item(item) ==
    Dict([name |-> get(item, "name", EMPTY_STR),
          position |-> get(item, "position", get(item, "type", get(item, "title", EMPTY_STR))),
          url |-> get(item, "url", PyNone),
          startDate |-> IF "years" \in DOMAIN item
                        THEN pdf_parse_date_range(item["years"].v)
                        ELSE get(item, "startDate", PyNone),
          endDate |-> IF "years" \in DOMAIN item
                      THEN pdf_parse_end_date(item["years"].v)
                      ELSE get(item, "endDate", PyNone),
          summary |-> get(item, "summary", description_of(item)),
          highlights |-> get(item, "highlights", EMPTY_LIST)])

\* ' '.join raises on an item that is no string, the date parsing on a number
work_item_raises(item) ==
    \/ get(item, "description", EMPTY_STR).t = "list" /\ ~all_str(item["description"])
    \/ "years" \in DOMAIN item /\ item["years"].t \in {"num", "bool"} /\ truthy(item["years"])

\* PDFHandler._transform_work_experience
pdf_transform_work_experience(work_list) ==
    List(Only({ [i \in 1..Len(items) |-> pdf_work_item(items[i].v)] :
                items \in {dict_items(work_list)} }))

work_experience_raises(work_list) ==
    \/ ~iterable(work_list)
    \/ \E i \in 1..Len(dict_items(work_list)) : work_item_raises(dict_items(work_list)[i].v)

organization_item(item) ==
    Dict([organization |-> get(item, "name", EMPTY_STR),
          position |-> get(item, "role", EMPTY_STR),
          url |-> get(item, "url", PyNone),
          startDate |-> PyNone,
          endDate |-> Str(PRESENT),
          summary |-> PyNone,
          highlights |-> EMPTY_LIST])

\* transform_organizations, PDFHandler._transform_organizations
transform_organizations(org_list) ==
    List(Only({ [i \in 1..Len(items) |-> organization_item(items[i].v)] :
                items \in {dict_items(org_list)} }))

COMMA == ","
COMMA_BLANK == ", "

has_comma(pieces) == find(pieces, COMMA) # 0 \/ find(pieces, COMMA_BLANK) # 0

score_of(item) ==
    IF get(item, "gpa", get(item, "percentage", PyNone)).t = "none"
    THEN PyNone
    ELSE str_of(get(item, "gpa", get(item, "percentage", PyNone)))

pdf_education_item(item) ==
    IF "degree" \in DOMAIN item
    THEN Dict([institution |-> get(item, "institution", EMPTY_STR),
               url |-> get(item, "url", PyNone),
               area |-> IF has_comma(item["degree"].v)
                        THEN Str(last(split(item["degree"].v, COMMA_BLANK)))
                        ELSE PyNone,
               studyType |-> IF has_comma(item["degree"].v)
                             THEN Str(split(item["degree"].v, COMMA_BLANK)[1])
                             ELSE item["degree"],
               startDate |-> pdf_parse_date_range(get(item, "years", EMPTY_STR).v),
               endDate |-> pdf_parse_end_date(get(item, "years", EMPTY_STR).v),
               score |-> score_of(item),
               courses |-> EMPTY_LIST])
    ELSE Dict(item)

\* PDFHandler._transform_education
pdf_transform_education(edu_list) ==
    List(Only({ [i \in 1..Len(items) |-> pdf_education_item(items[i].v)] :
                items \in {dict_items(edu_list)} }))

\* ',' in a degree that is no string raises
education_raises(edu_list) ==
    \/ ~iterable(edu_list)
    \/ \E i \in 1..Len(dict_items(edu_list)) :
           /\ "degree" \in DOMAIN dict_items(edu_list)[i].v
           /\ dict_items(edu_list)[i].v["degree"].t # "str"

achievement_item(item) ==
    Dict([title |-> get(item, "title", get(item, "name", EMPTY_STR)),
          date |-> IF truthy(get(item, "year", PyNone))
                   THEN Str(str_of(item["year"]).v \o <<JANUARY_SUFFIX>>)
                   ELSE PyNone,
          awarder |-> get(item, "awarder", get(item, "organization", EMPTY_STR)),
          summary |-> get(item, "summary", get(item, "description", PyNone))])

\* transform_achievements, PDFHandler._transform_achievements
transform_achievements(achievements_list) ==
    List(Only({ [i \in 1..Len(items) |-> achievement_item(items[i].v)] :
                items \in {dict_items(achievements_list)} }))

skill_item(item) ==
    IF "category" \in DOMAIN item
    THEN Dict([name |-> get(item, "category", EMPTY_STR),
               level |-> PyNone,
               keywords |-> get(item, "keywords", EMPTY_LIST)])
    ELSE Dict(item)

\* transform_skills, PDFHandler._transform_skills
transform_skills(skills_list) ==
    List(Only({ [i \in 1..Len(items) |-> skill_item(items[i].v)] :
                items \in {dict_items(skills_list)} }))

BAR == "|"

\* [part.strip() for part in text.split(',')]
stripped_parts(pieces) ==
    List(Only({ [i \in 1..Len(parts) |-> Str(strip(parts[i]))] :
                parts \in {split(pieces, COMMA)} }))

skills_in_name(name) ==
    IF find(name, BAR) # 0 THEN stripped_parts(strip(split(name, BAR)[2])) ELSE EMPTY_LIST

name_without_skills(name) ==
    IF find(name, BAR) # 0 THEN Str(strip(split(name, BAR)[1])) ELSE Str(name)

technologies_of(item) ==
    IF get(item, "technologies", EMPTY_LIST).t = "str"
    THEN stripped_parts(item["technologies"].v)
    ELSE get(item, "technologies", EMPTY_LIST)

project_item(item) ==
    Dict([name |-> IF "name" \in DOMAIN item
                   THEN name_without_skills(item["name"].v)
                   ELSE EMPTY_STR,
          startDate |-> PyNone,
          endDate |-> PyNone,
          description |-> get(item, "description", EMPTY_STR),
          highlights |-> IF truthy(get(item, "type", PyNone))
                         THEN List(<<item["type"]>>)
                         ELSE EMPTY_LIST,
          url |-> get(item, "url", PyNone),
          technologies |-> technologies_of(item),
          skills |-> IF ~truthy(skills_in_name(get(item, "name", EMPTY_STR).v))
                        /\ truthy(technologies_of(item))
                     THEN technologies_of(item)
                     ELSE skills_in_name(get(item, "name", EMPTY_STR).v)])

\* transform_projects, PDFHandler._transform_projects
transform_projects(projects_list) ==
    List(Only({ [i \in 1..Len(items) |-> project_item(items[i].v)] :
                items \in {dict_items(projects_list)} }))

\* '|' in a name that is no string raises
projects_raises(projects_list) ==
    \/ ~iterable(projects_list)
    \/ \E i \in 1..Len(dict_items(projects_list)) :
           get(dict_items(projects_list)[i].v, "name", EMPTY_STR).t \notin {"str", "list", "dict"}

open_source_project_item(item) ==
    Dict([name |-> IF "name" \in DOMAIN item
                   THEN name_without_skills(item["name"].v)
                   ELSE EMPTY_STR,
          startDate |-> PyNone,
          endDate |-> PyNone,
          description |-> get(item, "summary", EMPTY_STR),
          highlights |-> EMPTY_LIST,
          url |-> get(item, "url", PyNone),
          technologies |-> get(item, "technologies", EMPTY_LIST),
          skills |-> skills_in_name(get(item, "name", EMPTY_STR).v)])

SKILL_CATEGORIES ==
    << <<"librariesFrameworks", "Libraries/Frameworks">>,
       <<"toolsPlatforms", "Tools/Platforms">>,
       <<"databases", "Databases">> >>

skill_group(name, keywords) ==
    Dict([name |-> Str(<<name>>), level |-> PyNone, keywords |-> keywords])

RECURSIVE category_groups(_, _)
category_groups(parsed_data, i) ==
    IF i > Len(SKILL_CATEGORIES) THEN <<>>
    ELSE (IF SKILL_CATEGORIES[i][1] \in DOMAIN parsed_data
             /\ parsed_data[SKILL_CATEGORIES[i][1]].t = "list"
          THEN <<skill_group(SKILL_CATEGORIES[i][2], parsed_data[SKILL_CATEGORIES[i][1]])>>
          ELSE <<>>)
         \o category_groups(parsed_data, i + 1)

listed_skills(skills) ==
    IF skills.v # <<>> /\ skills.v[1].t = "str"
    THEN <<skill_group("Programming Languages", skills)>>
    ELSE transform_skills(skills).v

\* transform_skills_comprehensive, PDFHandler._transform_skills_comprehensive
transform_skills_comprehensive(parsed_data) ==
    List((IF "skills" \in DOMAIN parsed_data /\ parsed_data["skills"].t = "list"
          THEN listed_skills(parsed_data["skills"])
          ELSE <<>>)
         \o category_groups(parsed_data, 1))

\* transform_projects_comprehensive, PDFHandler._transform_projects_comprehensive
transform_projects_comprehensive(parsed_data) ==
    List((IF "projects" \in DOMAIN parsed_data
          THEN transform_projects(parsed_data["projects"]).v
          ELSE <<>>)
         \o (IF "projectsOpenSource" \in DOMAIN parsed_data
             THEN Only({ [i \in 1..Len(items) |-> open_source_project_item(items[i].v)] :
                         items \in {dict_items(parsed_data["projectsOpenSource"])} })
             ELSE <<>>))

projects_comprehensive_raises(parsed_data) ==
    \/ "projects" \in DOMAIN parsed_data /\ projects_raises(parsed_data["projects"])
    \/ "projectsOpenSource" \in DOMAIN parsed_data
           /\ projects_raises(parsed_data["projectsOpenSource"])

work_source(parsed_data) ==
    get(parsed_data, "work_experience",
        get(parsed_data, "work", get(parsed_data, "experience", EMPTY_LIST)))

awards_source(parsed_data) ==
    get(parsed_data, "achievements",
        get(parsed_data, "awards", get(parsed_data, "honors_and_awards", EMPTY_LIST)))

\* an exception anywhere in the mapping
pdf_transform_raises(parsed_data) ==
    \/ work_experience_raises(work_source(parsed_data))
    \/ ~iterable(get(parsed_data, "organizations", EMPTY_LIST))
    \/ education_raises(get(parsed_data, "education", EMPTY_LIST))
    \/ ~iterable(awards_source(parsed_data))
    \/ projects_comprehensive_raises(parsed_data)

pdf_transformed_data(parsed_data) ==
    [basics |-> get(parsed_data, "basics", EMPTY_DICT),
     work |-> pdf_transform_work_experience(work_source(parsed_data)),
     volunteer |-> transform_organizations(get(parsed_data, "organizations", EMPTY_LIST)),
     education |-> pdf_transform_education(get(parsed_data, "education", EMPTY_LIST)),
     awards |-> transform_achievements(awards_source(parsed_data)),
     certificates |-> get(parsed_data, "certificates", EMPTY_LIST),
     publications |-> get(parsed_data, "publications", EMPTY_LIST),
     skills |-> transform_skills_comprehensive(parsed_data),
     languages |-> get(parsed_data, "languages", EMPTY_LIST),
     interests |-> get(parsed_data, "interests", EMPTY_LIST),
     references |-> get(parsed_data, "references", EMPTY_LIST),
     projects |-> transform_projects_comprehensive(parsed_data),
     meta |-> get(parsed_data, "meta", EMPTY_DICT)]

\* PDFHandler._transform_parsed_data, for the dict it is called with: the
\* mapped dict, or the dict as it came when the mapping raised
pdf_transform_parsed_data(parsed_data) ==
    IF pdf_transform_raises(parsed_data)
    THEN parsed_data
    ELSE pdf_transformed_data(parsed_data)



----------------------------------------------------------------------------
(* The mapping of src/transform.py, where it differs from PDFHandler's      *)

\* a text or None of parse_date_range as a value
date_value(d) == IF d = None THEN PyNone ELSE Str(d)

\* the startDate holds a month name: it is parsed as a range
start_is_range(item) ==
    /\ get(item, "startDate", EMPTY_STR).t = "str"
    /\ names_month(get(item, "startDate", EMPTY_STR).v)

work_item(item) ==
    Dict([name |-> get(item, "name", EMPTY_STR),
          position |-> get(item, "position", get(item, "type", get(item, "title", EMPTY_STR))),
          url |-> get(item, "url", PyNone),
          startDate |-> IF start_is_range(item)
                        THEN date_value(parse_date_range(item["startDate"].v)[1])
                        ELSE get(item, "startDate", PyNone),
          endDate |-> IF start_is_range(item)
                      THEN date_value(parse_date_range(item["startDate"].v)[2])
                      ELSE get(item, "endDate", PyNone),
          summary |-> get(item, "summary", description_of(item)),
          highlights |-> get(item, "highlights", EMPTY_LIST)])

\* transform_work_experience
transform_work_experience(work_list) ==
    List(Only({ [i \in 1..Len(items) |-> work_item(items[i].v)] :
                items \in {dict_items(work_list)} }))

work_raises(work_list) ==
    \/ ~iterable(work_list)
    \/ \E i \in 1..Len(dict_items(work_list)) :
           \/ /\ get(dict_items(work_list)[i].v, "description", EMPTY_STR).t = "list"
              /\ ~all_str(dict_items(work_list)[i].v["description"])
           \/ /\ get(dict_items(work_list)[i].v, "startDate", EMPTY_STR).t \in {"num", "bool"}
              /\ truthy(get(dict_items(work_list)[i].v, "startDate", EMPTY_STR))

education_item(item) ==
    IF "degree" \in DOMAIN item
    THEN Dict([institution |-> get(item, "institution", EMPTY_STR),
               url |-> get(item, "url", PyNone),
               area |-> IF has_comma(item["degree"].v)
                        THEN Str(last(split(item["degree"].v, COMMA_BLANK)))
                        ELSE PyNone,
               studyType |-> IF has_comma(item["degree"].v)
                             THEN Str(split(item["degree"].v, COMMA_BLANK)[1])
                             ELSE item["degree"],
               startDate |-> date_value(parse_date_range(get(item, "years", EMPTY_STR).v)[1]),
               endDate |-> date_value(parse_date_range(get(item, "years", EMPTY_STR).v)[2]),
               score |-> score_of(item),
               courses |-> EMPTY_LIST])
    ELSE Dict(item)

\* transform_education
transform_education(edu_list) ==
    List(Only({ [i \in 1..Len(items) |-> education_item(items[i].v)] :
                items \in {dict_items(edu_list)} }))

\* a profile dict of basics as the record transform_basics works on, and back
profile_record(item) ==
    [dict |-> TRUE,
     url |-> IF get(item, "url", PyNone).t = "str" THEN item["url"].v ELSE None,
     network |-> IF get(item, "network", PyNone).t = "str" THEN item["network"].v ELSE None,
     username |-> IF get(item, "username", PyNone).t = "str" THEN item["username"].v ELSE None]

profile_value(item, p) ==
    Dict([k \in DOMAIN item \cup { f \in {"network", "username"} : p[f] # None } |->
            IF k \in {"network", "username"} /\ p[k] # None THEN Str(p[k]) ELSE item[k]])

\* transform_basics on a value
basics_value(basics_data) ==
    IF basics_data.t # "dict"
    THEN basics_data
    ELSE Dict(update(basics_data.v,
             [profiles |->
                 List(Only({ [i \in 1..Len(items) |->
                                 profile_value(items[i].v,
                                     transformed_profile(profile_record(items[i].v)))] :
                             items \in {dict_items(get(basics_data.v, "profiles", EMPTY_LIST))} }))]))

has_any(parsed_data, keys) == DOMAIN parsed_data \cap keys # {}

\* the branch transform_parsed_data takes for a dict: all sections, or the one
\* section the dict holds
branch_of(parsed_data) ==
    CASE "basics" \in DOMAIN parsed_data /\ Cardinality(DOMAIN parsed_data) > 1 -> "all"
      [] "basics" \in DOMAIN parsed_data -> "basics"
      [] has_any(parsed_data, {"work", "work_experience", "experience"}) -> "work"
      [] "education" \in DOMAIN parsed_data -> "education"
      [] has_any(parsed_data, {"skills", "librariesFrameworks", "toolsPlatforms",
                               "databases"}) -> "skills"
      [] has_any(parsed_data, {"projects", "projectsOpenSource"}) -> "projects"
      [] has_any(parsed_data, {"awards", "achievements", "honors_and_awards"}) -> "awards"
      [] OTHER -> "other"

single_work_source(parsed_data) ==
    get(parsed_data, "work",
        get(parsed_data, "work_experience", get(parsed_data, "experience", EMPTY_LIST)))

single_awards_source(parsed_data) ==
    get(parsed_data, "awards",
        get(parsed_data, "achievements", get(parsed_data, "honors_and_awards", EMPTY_LIST)))

transform_raises(parsed_data) ==
    CASE branch_of(parsed_data) = "all" ->
             \/ work_raises(work_source(parsed_data))
             \/ ~iterable(get(parsed_data, "organizations", EMPTY_LIST))
             \/ education_raises(get(parsed_data, "education", EMPTY_LIST))
             \/ ~iterable(awards_source(parsed_data))
             \/ projects_comprehensive_raises(parsed_data)
      [] branch_of(parsed_data) = "work" -> work_raises(single_work_source(parsed_data))
      [] branch_of(parsed_data) = "education" -> education_raises(parsed_data["education"])
      [] branch_of(parsed_data) = "projects" -> projects_comprehensive_raises(parsed_data)
      [] branch_of(parsed_data) = "awards" -> ~iterable(single_awards_source(parsed_data))
      [] OTHER -> FALSE

transformed_data(parsed_data) ==
    CASE branch_of(parsed_data) = "all" ->
             [basics |-> basics_value(parsed_data["basics"]),
              work |-> transform_work_experience(work_source(parsed_data)),
              volunteer |-> transform_organizations(
                                get(parsed_data, "organizations", EMPTY_LIST)),
              education |-> transform_education(get(parsed_data, "education", EMPTY_LIST)),
              awards |-> transform_achievements(awards_source(parsed_data)),
              certificates |-> get(parsed_data, "certificates", EMPTY_LIST),
              publications |-> get(parsed_data, "publications", EMPTY_LIST),
              skills |-> transform_skills_comprehensive(parsed_data),
              languages |-> get(parsed_data, "languages", EMPTY_LIST),
              interests |-> get(parsed_data, "interests", EMPTY_LIST),
              references |-> get(parsed_data, "references", EMPTY_LIST),
              projects |-> transform_projects_comprehensive(parsed_data),
              meta |-> get(parsed_data, "meta", EMPTY_DICT)]
      [] branch_of(parsed_data) = "basics" ->
             [basics |-> basics_value(parsed_data["basics"])]
      [] branch_of(parsed_data) = "work" ->
             [work |-> transform_work_experience(single_work_source(parsed_data))]
      [] branch_of(parsed_data) = "education" ->
             [education |-> transform_education(parsed_data["education"])]
      [] branch_of(parsed_data) = "skills" ->
             [skills |-> transform_skills_comprehensive(parsed_data)]
      [] branch_of(parsed_data) = "projects" ->
             [projects |-> transform_projects_comprehensive(parsed_data)]
      [] branch_of(parsed_data) = "awards" ->
             [awards |-> transform_achievements(single_awards_source(parsed_data))]
      [] OTHER -> parsed_data

\* the dict handed in, when the mapping raised: transform_basics has by then
\* written the profiles into the basics dict it was given
raw_after_raise(parsed_data) ==
    IF branch_of(parsed_data) = "all"
    THEN [parsed_data EXCEPT !["basics"] = basics_value(parsed_data["basics"])]
    ELSE parsed_data

\* transform_parsed_data of src/transform.py, for a value: a dict is mapped,
\* or returned as it came when the mapping raised; anything else is returned
transform_parsed_data(parsed) ==
    IF parsed.t # "dict" THEN parsed
    ELSE IF transform_raises(parsed.v) THEN Dict(raw_after_raise(parsed.v))
    ELSE Dict(transformed_data(parsed.v))

----------------------------------------------------------------------------
(* The JSON Resume schema (src/models.py) and its validation                *)

STR_FIELDS ==
    [Location |-> {"address", "postalCode", "city", "countryCode", "region"},
     Profile |-> {"network", "username", "url"},
     Basics |-> {"name", "email", "phone", "url", "summary"},
     Work |-> {"name", "position", "url", "startDate", "endDate", "summary"},
     Volunteer |-> {"organization", "position", "url", "startDate", "endDate", "summary"},
     Education |-> {"institution", "url", "area", "studyType", "startDate", "endDate",
                    "score"},
     Award |-> {"title", "date", "awarder", "summary"},
     Certificate |-> {"name", "date", "issuer", "url"},
     Publication |-> {"name", "publisher", "releaseDate", "url", "summary"},
     Skill |-> {"name", "level"},
     Language |-> {"language", "fluency"},
     Interest |-> {"name"},
     Reference |-> {"name", "reference"},
     Project |-> {"name", "startDate", "endDate", "description", "url"},
     JSONResume |-> {}]

STR_LIST_FIELDS ==
    [Location |-> {}, Profile |-> {}, Basics |-> {},
     Work |-> {"highlights"}, Volunteer |-> {"highlights"}, Education |-> {"courses"},
     Award |-> {}, Certificate |-> {}, Publication |-> {},
     Skill |-> {"keywords"}, Language |-> {}, Interest |-> {"keywords"},
     Reference |-> {}, Project |-> {"highlights", "technologies", "skills"},
     JSONResume |-> {}]

REQUIRED_FIELDS == [m \in DOMAIN STR_FIELDS |->
    CASE m = "Profile" -> {"url"} [] m = "Basics" -> {"name"} [] OTHER -> {}]

\* the fields that hold a model or a list of models, with the model
MODEL_FIELDS == [m \in DOMAIN STR_FIELDS |->
    CASE m = "Basics" -> [location |-> "Location"]
      [] m = "JSONResume" -> [basics |-> "Basics"]
      [] OTHER -> <<>>]

MODEL_LIST_FIELDS == [m \in DOMAIN STR_FIELDS |->
    CASE m = "Basics" -> [profiles |-> "Profile"]
      [] m = "JSONResume" ->
             [work |-> "Work", volunteer |-> "Volunteer", education |-> "Education",
              awards |-> "Award", certificates |-> "Certificate",
              publications |-> "Publication", skills |-> "Skill",
              languages |-> "Language", interests |-> "Interest",
              references |-> "Reference", projects |-> "Project"]
      [] OTHER -> <<>>]

FIELDS == [m \in DOMAIN STR_FIELDS |->
    STR_FIELDS[m] \cup STR_LIST_FIELDS[m] \cup DOMAIN MODEL_FIELDS[m]
        \cup DOMAIN MODEL_LIST_FIELDS[m]]

\* pydantic accepts x as the model m: a dict with the required fields, every
\* declared field of its type or None (a required one not None), other keys
\* ignored
RECURSIVE model_ok(_, _)
model_ok(m, x) ==
    /\ x.t = "dict"
    /\ REQUIRED_FIELDS[m] \subseteq DOMAIN x.v
    /\ \A k \in DOMAIN x.v \cap FIELDS[m] :
           \/ x.v[k].t = "none" /\ k \notin REQUIRED_FIELDS[m]
           \/ k \in STR_FIELDS[m] /\ x.v[k].t = "str"
           \/ k \in STR_LIST_FIELDS[m] /\ x.v[k].t = "list" /\ all_str(x.v[k])
           \/ k \in DOMAIN MODEL_FIELDS[m] /\ model_ok(MODEL_FIELDS[m][k], x.v[k])
           \/ /\ k \in DOMAIN MODEL_LIST_FIELDS[m]
              /\ x.v[k].t = "list"
              /\ \A i \in 1..Len(x.v[k].v) : model_ok(MODEL_LIST_FIELDS[m][k], x.v[k].v[i])

\* the model object: the declared fields, None where x has none
RECURSIVE model_value(_, _)
model_value(m, x) ==
    Dict([k \in FIELDS[m] |->
        IF k \notin DOMAIN x.v \/ x.v[k].t = "none" THEN PyNone
        ELSE IF k \in DOMAIN MODEL_FIELDS[m] THEN model_value(MODEL_FIELDS[m][k], x.v[k])
        ELSE IF k \in DOMAIN MODEL_LIST_FIELDS[m]
        THEN List([i \in 1..Len(x.v[k].v) |->
                      model_value(MODEL_LIST_FIELDS[m][k], x.v[k].v[i])])
        ELSE x.v[k]])

----------------------------------------------------------------------------
(* Section extraction and assembly (src/pdf.py)                             *)

SECTIONS == <<"basics", "work", "education", "skills", "projects", "awards">>

\* the JSON documents an engine reply may carry, by the piece that stands for
\* the text between the braces
Text(s) == Str(<<s>>)

WORK_ITEMS ==
    List(<< Dict([name |-> Text("Acme"), title |-> Text("Engineer"),
                  description |-> List(<<Text("Built"), Text("things")>>)]) >>)

DOCUMENTS ==
    [basics_named |->
        [basics |-> Dict([name |-> Text("Ada"), email |-> Text("ada@example.org")])],
     basics_unnamed |->
        [basics |-> Dict([email |-> Text("ada@example.org")])],
     work_listed |-> [work |-> WORK_ITEMS],
     work_with_skills |->
        [work_experience |-> WORK_ITEMS,
         skills |-> List(<< Dict([name |-> Text("Backend"),
                                  keywords |-> List(<<Text("Go")>>)]) >>)],
     education_listed |->
        [education |-> List(<< Dict([institution |-> Text("MIT"),
                                     degree |-> Str(<<"BSc", COMMA_BLANK, "Physics">>),
                                     years |-> Str(<<"2019", DASH, "2020">>),
                                     gpa |-> Num(9)]) >>)],
     skills_flat |-> [skills |-> List(<<Text("Python"), Text("Go")>>)],
     skills_grouped |->
        [skills |-> List(<< Dict([category |-> Text("Languages"),
                                  keywords |-> List(<<Text("Python")>>)]) >>)],
     projects_listed |->
        [projects |-> List(<< Dict([name |-> Str(<<"Compiler", WS, BAR, WS, "C", COMMA,
                                                   WS, "Rust">>),
                                    description |-> Text("A compiler")]) >>)],
     awards_listed |->
        [awards |-> List(<< Dict([title |-> Text("Prize"), year |-> Text("2020")]) >>)]]

\* json.loads of a cleaned text
json_loads(text) ==
    IF Len(text) = 3 /\ text[1] = LBRACE /\ text[3] = RBRACE /\ text[2] \in DOMAIN DOCUMENTS
    THEN [ok |-> TRUE, value |-> Dict(DOCUMENTS[text[2]])]
    ELSE IF text = <<LBRACE, RBRACE>> THEN [ok |-> TRUE, value |-> EMPTY_DICT]
    ELSE IF text = <<"true">> THEN [ok |-> TRUE, value |-> PyTrue]
    ELSE IF text = <<"[]">> THEN [ok |-> TRUE, value |-> EMPTY_LIST]
    ELSE [ok |-> FALSE, value |-> PyNone]

\* what an extraction did and returned
Extraction(called, event, data) == [called |-> called, event |-> event, data |-> data]

\* PDFHandler._call_llm_for_section; the engine raises or replies with a text
call_llm_for_section(engine) ==
    IF engine.kind = "raises"
    THEN Extraction(TRUE, "raised", PyNone)
    ELSE IF json_loads(cleaned_response(engine.text)).ok
    THEN Extraction(TRUE, "parsed", json_loads(cleaned_response(engine.text)).value)
    ELSE Extraction(TRUE, "unparsable", PyNone)

extract_section_without_template_check(section_name, loaded, engine) ==
    call_llm_for_section(engine)

\* PDFHandler.extract_basics_section and the five like it
extract_section(section_name, loaded, engine) ==
    IF section_name \notin loaded
    THEN Extraction(FALSE, "no_template", PyNone)
    ELSE call_llm_for_section(engine)

EMPTY_RESUME ==
    [k \in {"basics", "work", "volunteer", "education", "awards", "certificates",
            "publications", "skills", "languages", "interests", "references",
            "projects", "meta"} |-> PyNone]

\* the loop body after the extraction: a falsy result is skipped, a dict is
\* merged, dict.update raises on anything else
merge_raises(section_data) == truthy(section_data) /\ section_data.t # "dict"

merged(resume, section_data) ==
    IF truthy(section_data) THEN update(resume, section_data.v) ELSE resume

RETURNED_NONE == [kind |-> "None", value |-> PyNone]
RAISED == [kind |-> "raised", value |-> PyNone]

\* JSONResume(**complete_resume), or None when the validation raises
json_resume_of(resume) ==
    IF model_ok("JSONResume", Dict(resume))
    THEN [kind |-> "record", value |-> model_value("JSONResume", Dict(resume))]
    ELSE RETURNED_NONE

----------------------------------------------------------------------------
(* The evaluator *)

VARIABLES
    self,             \* the attributes evaluate_* leave on the ResumeEvaluator
    pc,               \* "idle", or "awaiting" the engine's reply
    call,             \* the call in progress or last made: its own input
    reply,            \* the engine's reply to it
    outcome,          \* "none", "result" or "raised"
    calls,            \* what evaluate_resume called after the reply, in order
    fallback_ran,     \* _complete_missing_fields was called
    evaluation_dict,  \* what _extract_json returned
    evaluation_data,  \* the validated EvaluationData
    result            \* the EvaluationResult

\* PDFHandler._extract_all_sections_separately
VARIABLES
    templates,        \* the sections TemplateManager loaded a template for
    section,          \* 0, or the place in the section list the loop is at
    complete_resume,  \* the dict the section results are merged into
    section_log,      \* what each section extraction did and returned, in order
    json_resume       \* what the call returned

\* generate_projects_json
VARIABLES
    github_pc,        \* "idle", or "awaiting" the engine's selection
    projects,         \* the repository list passed in
    selection,        \* what the template rendering and the engine did
    selected          \* what the call returned

\* fetch_all_github_repos
VARIABLES
    fetch_pc,         \* "idle", "listing", "contributors" or "done"
    github_url,       \* the URL or username passed in
    account,          \* what GitHub holds for the user: the repositories
    fetch_log,        \* what became of each repository of the reply, in order
    fetched,          \* the project dicts built so far
    fetch_returned    \* what the call returned

\* the cleaning, date and profile functions
VARIABLES
    fn,               \* "none", or the function applied
    arg,              \* its input
    ret               \* what it returned

evaluator_vars == <<self, pc, call, reply, outcome, calls, fallback_ran, evaluation_dict,
                    evaluation_data, result>>

pdf_vars == <<templates, section, complete_resume, section_log, json_resume>>

fetch_vars == <<fetch_pc, github_url, account, fetch_log, fetched, fetch_returned>>

github_vars == <<github_pc, projects, selection, selected, fetch_vars>>

utility_vars == <<fn, arg, ret>>

vars == <<evaluator_vars, pdf_vars, github_vars, utility_vars>>

NONE == <<>>

\* the components at rest
EvaluatorIdle ==
    /\ self = [has_text |-> FALSE, text |-> <<>>, has_data |-> FALSE, data |-> NO_RESUME_DATA]
    /\ pc = "idle"
    /\ call = [api |-> "none", text |-> <<>>, has_data |-> FALSE, data |-> NO_RESUME_DATA]
    /\ reply = NONE
    /\ outcome = "none"
    /\ calls = <<>>
    /\ fallback_ran = FALSE
    /\ evaluation_dict = NONE
    /\ evaluation_data = NONE
    /\ result = NONE

PdfIdle ==
    /\ section = 0
    /\ complete_resume = NONE
    /\ section_log = <<>>
    /\ json_resume = NONE

FetchIdle ==
    /\ fetch_pc = "idle"
    /\ github_url = ""
    /\ account = <<>>
    /\ fetch_log = <<>>
    /\ fetched = <<>>
    /\ fetch_returned = NONE

GithubIdle ==
    /\ github_pc = "idle"
    /\ projects = <<>>
    /\ selection = NONE
    /\ selected = NONE
    /\ FetchIdle

UtilityIdle ==
    /\ fn = "none"
    /\ arg = NONE
    /\ ret = NONE

\* the part of evaluate_resume that follows the engine's reply
\* from the validated data on
evaluate_data(ex, data, made) ==
    [outcome |-> IF made.raised THEN "raised" ELSE "result",
     calls |-> ex.calls \o <<"EvaluationData", "_create_evaluation_result">>,
     fallback |-> ex.fallback, dict |-> ex.value, data |-> data,
     result |-> IF made.raised THEN NONE ELSE made.value]

\* from the extracted dict ex on
evaluate_dict(ex) ==
    IF ex.raised
    THEN [outcome |-> "raised", calls |-> ex.calls, fallback |-> ex.fallback,
          dict |-> NONE, data |-> NONE, result |-> NONE]
    ELSE IF ~evaluation_data_ok(ex.value)
    THEN [outcome |-> "raised", calls |-> ex.calls \o <<"EvaluationData">>,
          fallback |-> ex.fallback, dict |-> ex.value, data |-> NONE, result |-> NONE]
    ELSE Only({ Only({ evaluate_data(ex, data, made) :
                       made \in {create_evaluation_result(data)} }) :
                data \in {EvaluationData(ex.value)} })

evaluate_reply(s, r) == Only({ evaluate_dict(ex) : ex \in {extract_json(s, r)} })

Init ==
    /\ EvaluatorIdle
    /\ templates = {}
    /\ PdfIdle
    /\ GithubIdle
    /\ UtilityIdle

Started ==
    /\ pc' = "awaiting"
    /\ reply' = NONE
    /\ outcome' = "none"
    /\ calls' = <<>>
    /\ fallback_ran' = FALSE
    /\ evaluation_dict' = NONE
    /\ evaluation_data' = NONE
    /\ result' = NONE

\* evaluate_resume(resume_text), up to the engine call
EvaluateResume(text) ==
    /\ pc = "idle"
    /\ self' = [self EXCEPT !.has_text = TRUE, !.text = text]
    /\ call' = [api |-> "evaluate_resume", text |-> text, has_data |-> FALSE,
                data |-> NO_RESUME_DATA]
    /\ Started
    /\ UNCHANGED <<pdf_vars, github_vars, utility_vars>>

\* evaluate_resume_from_json(resume_data), up to the engine call
EvaluateResumeFromJson(data) ==
    /\ pc = "idle"
    /\ self' = [has_text |-> TRUE, text |-> convert_json_resume_to_text(data),
                has_data |-> TRUE, data |-> data]
    /\ call' = [api |-> "evaluate_resume_from_json",
                text |-> convert_json_resume_to_text(data), has_data |-> TRUE, data |-> data]
    /\ Started
    /\ UNCHANGED <<pdf_vars, github_vars, utility_vars>>

\* ollama.chat returns, and evaluate_resume runs to its end
EngineReplies(r) ==
    /\ pc = "awaiting"
    /\ \E run \in {evaluate_reply(self, r)} :
           /\ outcome' = run.outcome
           /\ calls' = run.calls
           /\ fallback_ran' = run.fallback
           /\ evaluation_dict' = run.dict
           /\ evaluation_data' = run.data
           /\ result' = run.result
    /\ reply' = r
    /\ pc' = "idle"
    /\ UNCHANGED <<self, call>>
    /\ UNCHANGED <<pdf_vars, github_vars, utility_vars>>

\* ollama.chat raises, and evaluate_resume raises it again
EngineFails ==
    /\ pc = "awaiting"
    /\ outcome' = "raised"
    /\ pc' = "idle"
    /\ UNCHANGED <<self, call, reply, calls, fallback_ran, evaluation_dict,
                   evaluation_data, result>>
    /\ UNCHANGED <<pdf_vars, github_vars, utility_vars>>

Next ==
    \/ \E text \in ResumeTexts : EvaluateResume(text)
    \/ \E data \in ResumeDatas : EvaluateResumeFromJson(data)
    \/ \E r \in Replies : EngineReplies(r)
    \/ EngineFails

Spec == Init /\ [][Next]_vars

----------------------------------------------------------------------------
(* The cleaning, date and profile functions applied to one input           *)

Seqs(S, n) == UNION { [1..k -> S] : k \in 0..n }

MaxTextLen == 4
MaxDateLen == 5
MaxSegments == 3

TextPieces == {THINK_OPEN, THINK_CLOSE, FENCE_JSON, FENCE, WS, LBRACE, RBRACE, "x"}

Texts == Seqs(TextPieces, MaxTextLen)

DatePieces == {"Mar", "May", "2019", "2020", DASH, WS, ONWARDS}

\* a span of two month-and-year dates
MONTH_YEAR_SPAN == <<"Mar", WS, "2019", WS, DASH, WS, "May", WS, "2020">>

DateTexts == Seqs(DatePieces, MaxDateLen) \cup {MONTH_YEAR_SPAN}

\* a profile URL by its parts; the path is a sequence of segments, each a
\* sequence of pieces
Hosts == {"github.com", "linkedin.com", "stackoverflow.com", "x.com", "example.org"}

Segments == { <<"octocat">>, <<"in">>, <<"ma", "x.com", "pton">> }

QUERY == <<"?", "tab=repositories">>

RECURSIVE path_text(_)
path_text(segments) ==
    IF segments = <<>> THEN <<>>
    ELSE <<SLASH>> \o Head(segments) \o path_text(Tail(segments))

url_text(u) ==
    (IF u.scheme THEN <<"https", SCHEME_SEP>> ELSE <<>>)
        \o (IF u.www THEN <<WWW>> ELSE <<>>)
        \o <<u.host>>
        \o path_text(u.segments)
        \o (IF u.query THEN QUERY ELSE <<>>)
        \o (IF u.slash THEN <<SLASH>> ELSE <<>>)

UrlParts ==
    [scheme : BOOLEAN, www : BOOLEAN, host : Hosts,
     segments : Seqs(Segments, MaxSegments), query : BOOLEAN, slash : BOOLEAN]

Profile(url, network, username) ==
    [dict |-> TRUE, url |-> url, network |-> network, username |-> username]

BARE_PROFILE == [dict |-> FALSE, url |-> None, network |-> None, username |-> None]

\* the profile whose URL has the parts u, and the parts themselves
ProfileInputs ==
    { [parts |-> u, profile |-> Profile(url_text(u), n, None)] :
        u \in UrlParts, n \in {None, <<"GitHub">>, <<>>} }
    \cup { [parts |-> u, profile |-> Profile(None, None, <<"old">>)] :
             u \in { [scheme |-> FALSE, www |-> FALSE, host |-> "example.org",
                      segments |-> <<>>, query |-> FALSE, slash |-> FALSE] } }

BasicsInputs ==
    { [parts |-> <<p.parts>>, basics |-> [name |-> <<"Ada">>, profiles |-> <<p.profile>>]] :
        p \in ProfileInputs }
    \cup { [parts |-> <<p.parts>>,
            basics |-> [name |-> <<"Ada">>, profiles |-> <<BARE_PROFILE, p.profile>>]] :
             p \in { q \in ProfileInputs : q.parts.segments = <<>> } }

\* the list-typed fields of a resume
LIST_FIELDS == DOMAIN MODEL_LIST_FIELDS["JSONResume"]

MaxListFields == 2

\* lists as an engine writes them: of objects, of bare strings, of both
ENTRY == Dict([name |-> Text("Go")])
ListShapes == {List(<<ENTRY>>), List(<<Text("Go")>>), List(<<ENTRY, Text("Go")>>)}

\* parsed data: up to MaxListFields list-typed fields, all of one shape, with
\* or without a basics
ParsedInputs ==
    { Only({ IF with_basics
             THEN update([basics |-> Dict([name |-> Text("Ada")])], fields)
             ELSE fields :
             fields \in {[k \in present |-> shape]} }) :
        present \in {S \in SUBSET LIST_FIELDS : Cardinality(S) \in 1..MaxListFields},
        shape \in ListShapes,
        with_basics \in BOOLEAN }

\* score sets: the four categories in their usual order, each full, half
\* full or empty, on the fixed max or on a max of the engine's
ScorePairs(c) ==
    { <<0, FixedMax(c)>>, <<FixedMax(c), FixedMax(c)>>,
      <<MAX_TECHNICAL_SKILLS, MAX_TECHNICAL_SKILLS>>,
      <<MAX_TECHNICAL_SKILLS \div 2, MAX_TECHNICAL_SKILLS>> }

ScoreSets ==
    { [i \in 1..Len(Categories) |->
         Entry(Categories[i], "rec", Cat(p[i][1], p[i][2], PLAIN))] :
        p \in { q \in [1..Len(Categories) -> UNION {ScorePairs(c) : c \in CategorySet}] :
                   \A i \in 1..Len(Categories) : q[i] \in ScorePairs(Categories[i]) } }

UtilityInit ==
    /\ EvaluatorIdle
    /\ templates = {}
    /\ PdfIdle
    /\ GithubIdle
    /\ fn = "none"
    /\ ret = NONE
    /\ \/ \E t \in Texts : arg = [kind |-> "text", v |-> t]
       \/ \E t \in DateTexts : arg = [kind |-> "date", v |-> t]
       \/ \E b \in BasicsInputs : arg = [kind |-> "basics", v |-> b]
       \/ \E p \in ParsedInputs : arg = [kind |-> "parsed", v |-> p]
       \/ \E s \in ScoreSets : arg = [kind |-> "scores", v |-> s]

Applied(name, value) ==
    /\ fn = "none"
    /\ fn' = name
    /\ ret' = value
    /\ UNCHANGED arg
    /\ UNCHANGED <<evaluator_vars, pdf_vars, github_vars>>

ExtractJsonFromResponse ==
    /\ arg.kind = "text"
    /\ Applied("extract_json_from_response", extract_json_from_response(arg.v))

CleanResponse ==
    /\ arg.kind = "text"
    /\ Applied("cleaned_response", cleaned_response(arg.v))

ParseDateRange ==
    /\ arg.kind = "date"
    /\ Applied("parse_date_range", parse_date_range(arg.v))

TransformBasics ==
    /\ arg.kind = "basics"
    /\ Applied("transform_basics", transform_basics(arg.v.basics))

TransformParsedData ==
    /\ arg.kind = "parsed"
    /\ Applied("transform_parsed_data", transform_parsed_data(Dict(arg.v)))

PdfTransformParsedData ==
    /\ arg.kind = "parsed"
    /\ Applied("_transform_parsed_data", Dict(pdf_transform_parsed_data(arg.v)))

GenerateImprovementsFromScores ==
    /\ arg.kind = "scores"
    /\ Applied("_generate_improvements_from_scores", generate_improvements_from_scores(arg.v))

UtilityNext ==
    \/ ExtractJsonFromResponse
    \/ CleanResponse
    \/ ParseDateRange
    \/ TransformBasics
    \/ TransformParsedData
    \/ PdfTransformParsedData
    \/ GenerateImprovementsFromScores

SpecUtility == UtilityInit /\ [][UtilityNext]_vars

----------------------------------------------------------------------------
(* PDFHandler._extract_all_sections_separately: one step for each section   *)

\* the engine, at one call: it raises or replies with a text
ENGINE_RAISES == [kind |-> "raises", text |-> <<>>]
NOT_CALLED == [kind |-> "not_called", text |-> <<>>]

Document(name) == <<LBRACE, name, RBRACE>>

SECTION_REPLIES ==
    [basics |-> {Document("basics_named"), Document("basics_unnamed"), <<"Sorry">>},
     work |-> {Document("work_listed"), Document("work_with_skills"), <<"true">>},
     education |-> {<<FENCE_JSON, WS>> \o Document("education_listed") \o <<WS, FENCE>>,
                    <<LBRACE, RBRACE>>},
     skills |-> {Document("skills_flat"), Document("skills_grouped")},
     projects |-> {<<THINK_OPEN, "hm", THINK_CLOSE>> \o Document("projects_listed"),
                   <<"[]">>},
     awards |-> {Document("awards_listed"), <<"Here", LBRACE, "awards_listed">>}]

Engines(section_name) ==
    {ENGINE_RAISES}
        \cup { [kind |-> "replies", text |-> t] : t \in SECTION_REPLIES[section_name] }

\* the template files found when the TemplateManager was built
TemplateSets ==
    {{SECTIONS[i] : i \in 1..Len(SECTIONS)} \ missing :
        missing \in {{}} \cup {{SECTIONS[i]} : i \in 1..Len(SECTIONS)}}

AssemblerInit ==
    /\ EvaluatorIdle
    /\ GithubIdle
    /\ UtilityIdle
    /\ templates \in TemplateSets
    /\ section = 0
    /\ complete_resume = EMPTY_RESUME
    /\ section_log = <<>>
    /\ json_resume = NONE

\* the mapping and the validation that follow the loop
assembled(resume) == json_resume_of(pdf_transform_parsed_data(resume))

\* one turn of the loop: the extraction of the next section and the merge of
\* its result; after the last section the mapping and the validation
ExtractSection(engine) ==
    /\ json_resume = NONE
    /\ section < Len(SECTIONS)
    /\ \E r \in {extract_section(SECTIONS[section + 1], templates, engine)} :
           /\ section_log' = Append(section_log,
                  [section |-> SECTIONS[section + 1],
                   engine |-> IF r.called THEN engine ELSE NOT_CALLED,
                   result |-> r])
           /\ IF merge_raises(r.data)
              THEN /\ json_resume' = RAISED
                   /\ UNCHANGED complete_resume
              ELSE /\ complete_resume' = merged(complete_resume, r.data)
                   /\ json_resume' = IF section + 1 = Len(SECTIONS)
                                     THEN assembled(merged(complete_resume, r.data))
                                     ELSE NONE
    /\ section' = section + 1
    /\ UNCHANGED <<templates, evaluator_vars, github_vars, utility_vars>>

AssemblerNext ==
    \E engine \in Engines(SECTIONS[IF section < Len(SECTIONS) THEN section + 1 ELSE 1]) :
        ExtractSection(engine)

SpecAssembler == AssemblerInit /\ [][AssemblerNext]_vars

----------------------------------------------------------------------------
(* generate_projects_json (src/github.py)                                   *)
(*                                                                          *)
(* A project is a dict value; the list passed in is the one                 *)
(* fetch_all_github_repos returns, sorted by stars, or a list of dicts with *)
(* fewer keys.  TemplateManager of src/prompts/template_manager.py has no   *)
(* render_github_project_selection_template: the call is taken to raise,    *)
(* to return None or to return a prompt.                                    *)

TOP_N == 5

project_data(project) ==
    Dict([name |-> get(project.v, "name", PyNone),
          description |-> get(project.v, "description", PyNone),
          github_url |-> get(project.v, "github_url", PyNone),
          live_url |-> get(project.v, "live_url", PyNone),
          technologies |-> get(project.v, "technologies", EMPTY_LIST),
          project_type |-> get(project.v, "project_type", Text("self_project")),
          contributor_count |-> get(project.v, "contributor_count", Num(1)),
          github_details |-> get(project.v, "github_details", EMPTY_DICT)])

all_project_data(project_list) ==
    [i \in 1..Len(project_list) |-> project_data(project_list[i])]

\* the whole list where the first five are due
fallback_whole_list(project_list) == all_project_data(project_list)

\* the fallback: project_data of projects[:5]
fallback(project_list) == all_project_data(SubSeq(project_list, 1, Min2(TOP_N, Len(project_list))))

\* the reply before json.loads: stripped, without a leading json fence and a
\* trailing fence
selection_text(response_text) == without_last_fence(without_json_fence(strip(response_text)))

\* a project the engine may name that is not in the list
FOREIGN == Dict([name |-> Text("elsewhere")])

\* the JSON documents a selection reply may carry, by the piece that stands
\* for the document
\* the n-th repository is named r<n>
RepoName(n) == Str(<<"r", ToString(n)>>)

Named(n) == Dict([name |-> RepoName(n)])

SELECTION_DOCUMENTS ==
    [five |-> List(<<Named(7), Named(6), Named(5), Named(4), Named(3)>>),
     twice |-> List(<<Named(7), Named(7), Dict([stars |-> Num(3)])>>),
     foreign |-> List(<<FOREIGN, Named(2)>>),
     six |-> List(<<Named(1), Named(2), Named(3), Named(4), Named(5),
                    Named(6)>>),
     with_string |-> List(<<Named(7), Text("r6")>>),
     object |-> Named(7),
     empty_object |-> EMPTY_DICT,
     number |-> Num(5),
     null |-> PyNone]

selection_loads(text) ==
    IF Len(strip(text)) = 1 /\ strip(text)[1] \in DOMAIN SELECTION_DOCUMENTS
    THEN [ok |-> TRUE, value |-> SELECTION_DOCUMENTS[strip(text)[1]]]
    ELSE [ok |-> FALSE, value |-> PyNone]

\* the loop over selected_projects raises: the value is no iterable, or an
\* item of it has no get
selection_raises(value) ==
    CASE value.t = "list" -> \E i \in 1..Len(value.v) : value.v[i].t # "dict"
      [] value.t = "dict" -> DOMAIN value.v # {}
      [] value.t = "str" -> value.v # <<>>
      [] OTHER -> TRUE

names_of(project_list) ==
    {get(project_list[i].v, "name", EMPTY_STR) : i \in 1..Len(project_list)}

\* the two loops that append the projects with a name not seen yet; the
\* second stops at five
\* the loops without the test on the names seen
with_all_appended(unique_projects, items, up_to_five) ==
    IF up_to_five
    THEN SubSeq(unique_projects \o items, 1, Min2(TOP_N, Len(unique_projects \o items)))
    ELSE unique_projects \o items

RECURSIVE with_unseen(_, _, _)
with_unseen(unique_projects, items, up_to_five) ==
    IF items = <<>> \/ (up_to_five /\ Len(unique_projects) >= TOP_N)
    THEN unique_projects
    ELSE IF /\ truthy(get(Head(items).v, "name", EMPTY_STR))
            /\ get(Head(items).v, "name", EMPTY_STR) \notin names_of(unique_projects)
    THEN with_unseen(Append(unique_projects, Head(items)), Tail(items), up_to_five)
    ELSE with_unseen(unique_projects, Tail(items), up_to_five)

items_of(value) == IF value.t = "list" THEN value.v ELSE <<>>

unique_selection(project_list, value) ==
    Only({ IF Len(unique_projects) < TOP_N
           THEN with_unseen(unique_projects, all_project_data(project_list), TRUE)
           ELSE unique_projects :
           unique_projects \in {with_unseen(<<>>, items_of(value), FALSE)} })

\* what generate_projects_json returns once the engine replied; an invalid
\* JSON text reaches the handler that calls the undefined debug_log, and the
\* NameError reaches the outer handler
selected_from_reply(project_list, response_text) ==
    Only({ IF ~loaded.ok \/ selection_raises(loaded.value)
           THEN fallback(project_list)
           ELSE unique_selection(project_list, loaded.value) :
           loaded \in {selection_loads(selection_text(response_text))} })

MaxRepos == 7

\* a repository as fetch_all_github_repos lists it
Repo(n) ==
    Dict([name |-> RepoName(n),
          description |-> PyNone,
          github_url |-> Text("url"),
          live_url |-> PyNone,
          technologies |-> List(<<Text("Go")>>),
          project_type |-> Text(IF n % 2 = 0 THEN "open_source" ELSE "self_project"),
          contributor_count |-> Num(IF n % 2 = 0 THEN 3 ELSE 1),
          github_details |-> Dict([stars |-> Num(MaxRepos - n),
                                   contributors |-> Num(IF n % 2 = 0 THEN 3 ELSE 1)])])

RECURSIVE ordered(_, _)
ordered(S, n) ==
    IF n = 0 THEN <<>>
    ELSE IF n \in S THEN Append(ordered(S, n - 1), n) ELSE ordered(S, n - 1)

\* the lists: some of the repositories, most stars first, whole or by name only
ProjectLists ==
    { [i \in 1..Len(order) |-> IF whole THEN Repo(order[i]) ELSE Named(order[i])] :
        order \in {ordered(S, MaxRepos) : S \in SUBSET (1..MaxRepos)},
        whole \in BOOLEAN }

SelectionReplies ==
    {<<n>> : n \in DOMAIN SELECTION_DOCUMENTS}
        \cup {<<FENCE_JSON, WS, "five", WS, FENCE>>, <<WS, "twice", WS>>,
              <<"Here", WS, "five">>, <<FENCE, "five", FENCE>>, <<>>}

NO_SELECTION == [render |-> "not_called", engine |-> NOT_CALLED]

GithubInit ==
    /\ EvaluatorIdle
    /\ templates = {}
    /\ PdfIdle
    /\ UtilityIdle
    /\ github_pc = "idle"
    /\ projects \in ProjectLists
    /\ selection = NO_SELECTION
    /\ selected = NONE
    /\ FetchIdle

Returns(value) ==
    /\ selected' = [value |-> value]
    /\ github_pc' = "done"

\* generate_projects_json(projects), up to its return or to the engine call
GenerateProjectsJson(render) ==
    /\ github_pc = "idle"
    /\ IF Len(projects) <= TOP_N
       THEN /\ Returns(all_project_data(projects))
            /\ UNCHANGED selection
       ELSE /\ selection' = [render |-> render, engine |-> NOT_CALLED]
            /\ IF render = "prompt"
               THEN github_pc' = "awaiting" /\ UNCHANGED selected
               ELSE Returns(fallback(projects))
    /\ UNCHANGED <<projects, fetch_vars, evaluator_vars, pdf_vars, utility_vars>>

\* ollama.chat returns, and generate_projects_json runs to its end
SelectionEngineReplies(response_text) ==
    /\ github_pc = "awaiting"
    /\ selection' = [selection EXCEPT !.engine = [kind |-> "replies", text |-> response_text]]
    /\ Returns(selected_from_reply(projects, response_text))
    /\ UNCHANGED <<projects, fetch_vars, evaluator_vars, pdf_vars, utility_vars>>

\* ollama.chat raises
SelectionEngineRaises ==
    /\ github_pc = "awaiting"
    /\ selection' = [selection EXCEPT !.engine = ENGINE_RAISES]
    /\ Returns(fallback(projects))
    /\ UNCHANGED <<projects, fetch_vars, evaluator_vars, pdf_vars, utility_vars>>

\* what the call of render_github_project_selection_template does
RenderOutcomes == {"raises", "None", "prompt"}

GithubNext ==
    \/ \E render \in RenderOutcomes : GenerateProjectsJson(render)
    \/ \E response_text \in SelectionReplies : SelectionEngineReplies(response_text)
    \/ SelectionEngineRaises

SpecGithub == GithubInit /\ [][GithubNext]_vars

----------------------------------------------------------------------------
(* fetch_all_github_repos: one step for each request to the GitHub API      *)

FORK_MIN_FORKS == 5

\* extract_github_username on the texts drawn here
extract_github_username(url) ==
    CASE url = "" -> PyNone
      [] url \in {"https://github.com/ravi", "@ravi", "ravi"} -> Text("ravi")
      [] OTHER -> PyNone

\* repo.get('fork') and repo.get('forks_count', 0) < 5
skipped(repo) ==
    truthy(get(repo, "fork", PyNone)) /\ get(repo, "forks_count", Num(0)).v < FORK_MIN_FORKS

\* a reply of the API: a status and the parsed body, or the request raised
REQUEST_RAISES == [kind |-> "raises", status_code |-> 0, json |-> <<>>]

Response(status_code, body) == [kind |-> "response", status_code |-> status_code, json |-> body]

\* fetch_repo_contributors, from the request on; logger is no name of the
\* module, so the handler of a raised request raises NameError
fetch_repo_contributors(response) ==
    IF response.kind = "raises" THEN [raised |-> TRUE, value |-> 0]
    ELSE IF response.status_code = 200
    THEN [raised |-> FALSE, value |-> Len(response.json)]
    ELSE [raised |-> FALSE, value |-> 1]

\* the project dict of one repository
project_of(repo, contributor_count) ==
    Dict([name |-> get(repo, "name", PyNone),
          description |-> get(repo, "description", PyNone),
          github_url |-> get(repo, "html_url", PyNone),
          live_url |-> IF truthy(get(repo, "homepage", PyNone))
                       THEN get(repo, "homepage", PyNone) ELSE PyNone,
          technologies |-> IF truthy(get(repo, "language", PyNone))
                           THEN List(<<get(repo, "language", PyNone)>>) ELSE EMPTY_LIST,
          project_type |-> Text(IF contributor_count > 1 THEN "open_source" ELSE "self_project"),
          contributor_count |-> Num(contributor_count),
          github_details |-> Dict([stars |-> get(repo, "stargazers_count", Num(0)),
                                   forks |-> get(repo, "forks_count", Num(0)),
                                   contributors |-> Num(contributor_count)])])

stars_of(project) == project.v.github_details.v.stars.v

\* projects.sort(key=stars, reverse=True): projects with equal stars keep
\* their order
RECURSIVE sorted_by_stars(_)
sorted_by_stars(ps) ==
    IF ps = <<>> THEN <<>>
    ELSE LET rest == Tail(ps)
         IN  sorted_by_stars(SelectSeq(rest, LAMBDA p : stars_of(p) > stars_of(Head(ps))))
             \o <<Head(ps)>>
             \o sorted_by_stars(SelectSeq(rest, LAMBDA p : stars_of(p) <= stars_of(Head(ps))))

\* response.json() of the repository listing
repos_data(held) == [i \in 1..Len(held) |-> held[i].repo]

\* the loop from repository i up to the next one that is not skipped
RECURSIVE skip_forks(_, _, _)
skip_forks(repos, log, i) ==
    IF i <= Len(repos) /\ skipped(repos[i].v)
    THEN skip_forks(repos, Append(log, "skipped"), i + 1)
    ELSE log

MaxFetched == 2

\* a repository as the listing gives it
ApiRepo(n, stars, fork, forks_count) ==
    Dict(IF fork
         THEN [name |-> RepoName(n), html_url |-> Text("url"), language |-> Text("Go"),
               stargazers_count |-> Num(stars), forks_count |-> Num(forks_count),
               fork |-> PyTrue]
         ELSE [name |-> RepoName(n), html_url |-> Text("url"), language |-> Text("Go"),
               stargazers_count |-> Num(stars), forks_count |-> Num(forks_count)])

\* repositories on GitHub: what the listing gives, and the number of commits
\* of the account's owner in them, which the listing does not give
Held(n) ==
    { [repo |-> ApiRepo(n, stars, f[1], f[2]), owner_commits |-> c] :
        stars \in {0, 3},
        f \in {<<FALSE, 0>>, <<TRUE, 0>>, <<TRUE, FORK_MIN_FORKS>>},
        c \in {0, 2} }

RECURSIVE Accounts(_)
Accounts(n) ==
    IF n = 0 THEN {<<>>}
    ELSE Accounts(n - 1)
         \cup { Append(a, h) : a \in {x \in Accounts(n - 1) : Len(x) = n - 1}, h \in Held(n) }

GithubUrls == {"", "https://github.com/ravi", "https://gitlab.com/ravi"}

FetchInit ==
    /\ EvaluatorIdle
    /\ templates = {}
    /\ PdfIdle
    /\ UtilityIdle
    /\ github_pc = "idle" /\ projects = <<>> /\ selection = NONE /\ selected = NONE
    /\ fetch_pc = "idle"
    /\ github_url \in GithubUrls
    /\ account \in Accounts(MaxFetched)
    /\ fetch_log = <<>>
    /\ fetched = <<>>
    /\ fetch_returned = NONE

FetchReturns(value) ==
    /\ fetch_returned' = [value |-> value]
    /\ fetch_pc' = "done"

\* the loop goes on from the log: to the next request, or to the sort and
\* the return
LoopGoesOn(log, built) ==
    /\ \E l \in {skip_forks(repos_data(account), log, Len(log) + 1)} :
         /\ fetch_log' = l
         /\ IF Len(l) = Len(account)
            THEN FetchReturns(sorted_by_stars(built)) /\ fetched' = built
            ELSE fetch_pc' = "contributors" /\ fetched' = built /\ UNCHANGED fetch_returned

FetchUnchanged ==
    UNCHANGED <<github_url, account, github_pc, projects, selection, selected,
                evaluator_vars, pdf_vars, utility_vars>>

\* fetch_all_github_repos(github_url), up to the request for the listing
FetchAllGithubRepos ==
    /\ fetch_pc = "idle"
    /\ IF ~truthy(extract_github_username(github_url))
       THEN FetchReturns(<<>>)
       ELSE fetch_pc' = "listing" /\ UNCHANGED fetch_returned
    /\ UNCHANGED <<fetch_log, fetched>>
    /\ FetchUnchanged

\* the listing request returns with a status
ListingReplies(status_code) ==
    /\ fetch_pc = "listing"
    /\ IF status_code = 200
       THEN LoopGoesOn(<<>>, <<>>)
       ELSE FetchReturns(<<>>) /\ UNCHANGED <<fetch_log, fetched>>
    /\ FetchUnchanged

\* the listing request raises
ListingRaises ==
    /\ fetch_pc = "listing"
    /\ FetchReturns(<<>>)
    /\ UNCHANGED <<fetch_log, fetched>>
    /\ FetchUnchanged

\* the contributors request of the repository at hand returns or raises
ContributorsRequest(response) ==
    /\ fetch_pc = "contributors"
    /\ \E count \in {fetch_repo_contributors(response)} :
         IF count.raised
         THEN /\ FetchReturns(<<>>)
              /\ fetch_log' = Append(fetch_log, "raised")
              /\ UNCHANGED fetched
         ELSE LoopGoesOn(
                Append(fetch_log, IF response.status_code = 200 THEN "counted" ELSE "refused"),
                Append(fetched,
                       project_of(repos_data(account)[Len(fetch_log) + 1].v, count.value)))
    /\ FetchUnchanged

\* the statuses and bodies drawn
ListingStatuses == {200, 404, 500}

ContributorResponses ==
    {REQUEST_RAISES, Response(403, <<>>), Response(200, <<>>),
     Response(200, <<"ravi">>), Response(200, <<"ravi", "uma", "lee">>)}

FetchNext ==
    \/ FetchAllGithubRepos
    \/ \E status_code \in ListingStatuses : ListingReplies(status_code)
    \/ ListingRaises
    \/ \E response \in ContributorResponses : ContributorsRequest(response)

SpecFetch == FetchInit /\ [][FetchNext]_vars

----------------------------------------------------------------------------
(* Properties *)

\* the last call ran to its end on an engine reply
Evaluated == pc = "idle" /\ reply # NONE

\* the last call returned an EvaluationResult
HasResult == pc = "idle" /\ outcome = "result"

\* the fallback ran and returned a dict
FallbackReturned == pc = "idle" /\ fallback_ran /\ evaluation_dict # NONE

ScoresOfDict == Get(evaluation_dict, "scores").v

\* the documented formula on the validated data
RawFinal(d) ==
    d.scores["open_source"].score + d.scores["self_projects"].score
    + d.scores["production"].score + d.scores["technical_skills"].score
    + d.bonus_points.total - d.deductions.total

\* the same sum from the pairs of the result's category_breakdown
BreakdownSum(b) ==
    b["Open Source"][1] + b["Self Projects"][1] + b["Production"][1]
    + b["Technical Skills"][1] + b["Bonus Points"][1]
    + (IF "Deductions" \in DOMAIN b THEN b["Deductions"][1] ELSE 0)

InFinalRange(v) == MIN_FINAL_SCORE <= v /\ v <= MAX_FINAL_SCORE

Clamp(v) == Max2(MIN_FINAL_SCORE, Min2(MAX_FINAL_SCORE, v))

\* a marker phrase of the rule pass in the evidence, case-insensitively
HasMarker(evidence) == \E p \in ENFORCED_PHRASES : \E i \in 1..Len(evidence) : Lower(evidence[i]) = p

\* a 'no genuine contribution' phrase in the evidence, case-insensitively
HasNoContributionPhrase(evidence) ==
    \E p \in STRENGTH_EXCLUSION_PHRASES : \E i \in 1..Len(evidence) : Lower(evidence[i]) = p

\* C1: in every evaluation that produces a result, each of the four category
\* scores satisfies 0 <= score <= max
C1_ScoresWithinMax ==
    HasResult =>
        \A c \in CategorySet :
            /\ 0 <= evaluation_data.scores[c].score
            /\ evaluation_data.scores[c].score <= evaluation_data.scores[c].max

\* C2: when the open-source evidence holds a marker phrase, the open-source
\* score that reaches the result is at most 10
C2_MarkerScoreCapped ==
    HasResult =>
        (HasMarker(result.category_breakdown["Open Source"][2])
            => result.category_breakdown["Open Source"][1] <= 10)

\* C2, on the evaluations where the fallback ran: there the rule pass ran and
\* the cap holds
C2_CappedAfterFallback ==
    (HasResult /\ fallback_ran) =>
        (HasMarker(result.category_breakdown["Open Source"][2])
            => result.category_breakdown["Open Source"][1] <= 10)

\* C3: the final_score of every result is exactly the four category scores
\* plus the bonus total minus the deductions total, on the validated data and
\* recomputed from the result's own breakdown
C3_FinalScoreIsFormula ==
    HasResult =>
        /\ result.final_score = RawFinal(evaluation_data)
        /\ result.final_score = BreakdownSum(result.category_breakdown)

\* a result with a bonus and with deductions
C3_ResultWithBonusAndDeductions ==
    /\ HasResult
    /\ evaluation_data.bonus_points.total > 0
    /\ evaluation_data.deductions.total > 0
    /\ "Deductions" \in DOMAIN result.category_breakdown

\* C4 as claimed: whatever valid scores, bonus and deductions the engine
\* returns, a result is produced and its final_score is the formula value
\* clamped to [-20, 120]
C4_FinalScoreClamped ==
    (Evaluated /\ evaluation_data # NONE) =>
        /\ outcome = "result"
        /\ result.final_score = Clamp(RawFinal(evaluation_data))

\* C4 as amended: a formula value outside [-20, 120] is rejected, the call
\* raising and no result being produced; the final_score of a result lies in
\* [-20, 120] and is the formula value itself
C4_OutOfRangeRejected ==
    (Evaluated /\ evaluation_data # NONE) =>
        /\ ~InFinalRange(RawFinal(evaluation_data)) => (outcome = "raised" /\ result = NONE)
        /\ outcome = "result" =>
              /\ InFinalRange(result.final_score)
              /\ result.final_score = RawFinal(evaluation_data)

\* validated data whose formula value is below -20, and the call raised
C4_BelowRangeRaised ==
    /\ Evaluated
    /\ evaluation_data # NONE
    /\ RawFinal(evaluation_data) < MIN_FINAL_SCORE
    /\ outcome = "raised"

\* C5: in every evaluation that builds a result the rule pass runs after the
\* reply is parsed and before the result is built, fallback or not
C5_RulePassAlwaysRuns ==
    HasResult =>
        \E i, j, k \in 1..Len(calls) :
            /\ i < j /\ j < k
            /\ calls[i] = "json.loads"
            /\ calls[j] = "_enforce_scoring_rules"
            /\ calls[k] = "_create_evaluation_result"

\* the evaluator as it is right after construction, given the call's own input
OwnInput(c) == [has_text |-> TRUE, text |-> c.text, has_data |-> c.has_data, data |-> c.data]

\* C6: the outcome of a call depends only on the call's own input and the
\* engine's reply to it: it is what an evaluator that served no other
\* candidate returns
C6_NoStateCarriedOver ==
    Evaluated =>
        /\ outcome = evaluate_reply(OwnInput(call), reply).outcome
        /\ result = evaluate_reply(OwnInput(call), reply).result

\* C7: in every evaluation that produces a result the four categories carry
\* the max values 35, 30, 25 and 10
C7_FixedMaxima ==
    HasResult =>
        /\ evaluation_data.scores["open_source"].max = 35
        /\ evaluation_data.scores["self_projects"].max = 30
        /\ evaluation_data.scores["production"].max = 25
        /\ evaluation_data.scores["technical_skills"].max = 10

\* the engine's document names category c, under its own name or an alias, at
\* the top level or inside "scores"
Supplied(doc, c) ==
    \/ \E i \in 1..Len(doc) : category_mapping(doc[i].k) = c
    \/ /\ Has(doc, "scores")
       /\ Get(doc, "scores").t = "obj"
       /\ \E i \in 1..Len(Get(doc, "scores").v) : category_mapping(Get(doc, "scores").v[i].k) = c

\* C8: whenever the fallback runs, its output has all four categories, and a
\* category the engine did not supply has score 0, the fixed max and the
\* evidence "No data available"
C8_FallbackFillsAllCategories ==
    FallbackReturned =>
        \A c \in CategorySet :
            /\ Has(ScoresOfDict, c)
            /\ ~Supplied(reply.doc, c) =>
                  Get(ScoresOfDict, c) = Entry(c, "rec", DefaultScore(c))

\* C9: when the reply cannot be parsed as JSON, the call does not fail: the
\* fallback runs and a result is returned
C9_UnparsableReplyFallsBack ==
    (Evaluated /\ reply.kind = "prose") => (outcome = "result" /\ fallback_ran)

\* C10: the strengths the fallback derives hold no open-source strength when
\* the open-source evidence holds a 'no genuine contribution' phrase, whatever
\* the score
C10_NoOpenSourceStrength ==
    (FallbackReturned /\ Has(ScoresOfDict, "open_source")
       /\ HasKey(Get(ScoresOfDict, "open_source"), "evidence"))
    => (HasNoContributionPhrase(Get(ScoresOfDict, "open_source").v.evidence)
          => \A i \in 1..Len(Get(evaluation_dict, "key_strengths").v) :
                Get(evaluation_dict, "key_strengths").v[i] \notin OPEN_SOURCE_STRENGTHS)

\* derived strengths for an open-source score of 12 or more whose evidence
\* holds such a phrase: the other categories gave strengths, open source none
C10_ExcludedDespiteScore ==
    /\ FallbackReturned
    /\ HasResult
    /\ evaluation_data.scores["open_source"].score >= 12
    /\ HasNoContributionPhrase(evaluation_data.scores["open_source"].evidence)
    /\ \E i \in 1..Len(result.key_strengths) :
          result.key_strengths[i] = "Good variety of personal projects demonstrating technical skills"

\* C11: every result has 1 to 5 key strengths and 1 to 3 areas for
\* improvement, and the lists derived from the scores the fallback returns
\* are never empty and never longer than 5 and 3
C11_ListSizes ==
    /\ HasResult =>
          /\ Len(result.key_strengths) \in 1..5
          /\ Len(result.areas_for_improvement) \in 1..3
    /\ FallbackReturned =>
          /\ Len(generate_strengths_from_scores(ScoresOfDict)) \in 1..5
          /\ Len(generate_improvements_from_scores(ScoresOfDict)) \in 1..3

\* a result whose lists were derived from four empty categories: the stock
\* strength, and four improvements cut to three
C11_DerivedFromEmptyScores ==
    /\ HasResult
    /\ fallback_ran
    /\ result.key_strengths = <<"Shows interest in software development">>
    /\ Len(improvements_loop(ScoresOfDict, 1)) = 4
    /\ Len(result.areas_for_improvement) = 3

\* C17: cleaning a reply text twice gives what cleaning it once gives, for
\* extract_json_from_response and for the cleaning of a section reply
C17_RepairIdempotent ==
    /\ fn = "extract_json_from_response" => extract_json_from_response(ret) = ret
    /\ fn = "cleaned_response" => cleaned_response(ret) = ret

\* the relations of C18 between a date text and the pair returned
MonthRangeShape(t) ==
    /\ Len(t) = 5
    /\ t[1] \in MONTHS /\ t[2] = DASH /\ t[3] \in MONTHS /\ t[4] = WS
    /\ t[5] \in {"2019", "2020"}

YearRangeShape(t) ==
    /\ Len(t) = 3
    /\ t[1] \in {"2019", "2020"} /\ t[2] = DASH /\ t[3] \in {"2019", "2020"}

\* C18: parse_date_range gives ("Mon1 Year", "Mon2 Year") for "Mon1-Mon2 Year",
\* ("Year1-01", "Year2-12") for "Year1-Year2", and "Present" as the end of
\* every text that holds "onwards"
C18_DateRangeShapes ==
    fn = "parse_date_range" =>
        /\ MonthRangeShape(arg.v) =>
              ret = << <<arg.v[1], WS, arg.v[5]>>, <<arg.v[3], WS, arg.v[5]>> >>
        /\ YearRangeShape(arg.v) =>
              ret = << <<arg.v[1], "-01">>, <<arg.v[3], "-12">> >>
        /\ (\E i \in 1..Len(arg.v) : arg.v[i] = ONWARDS) => ret[2] = <<"Present">>

C18_YearRangeParsed ==
    /\ fn = "parse_date_range"
    /\ arg.v = <<"2019", DASH, "2020">>
    /\ ret = << <<"2019", "-01">>, <<"2020", "-12">> >>

\* the network and the place of the username segment that C19 names for a host
NetworkOfHost(host) ==
    CASE host = "github.com" -> "GitHub"
      [] host = "linkedin.com" -> "LinkedIn"
      [] host = "stackoverflow.com" -> "Stack Overflow"
      [] host = "x.com" -> "X"
      [] OTHER -> ""

UsernameSegment(host) ==
    CASE host = "linkedin.com" -> 2
      [] host = "stackoverflow.com" -> 3
      [] OTHER -> 1

\* C19: a profile with a url of a listed domain and no network leaves
\* transform_basics with the network of the table and, when the URL has the
\* path segment fixed for the domain, with that segment as username
C19_NetworkAndUsernameInferred ==
    fn = "transform_basics" =>
        \A i \in 1..Len(ret.profiles) :
            \A u \in {arg.v.parts[1]} :
                ( /\ arg.v.basics.profiles[Len(arg.v.basics.profiles)].url = url_text(u)
                  /\ arg.v.basics.profiles[Len(arg.v.basics.profiles)].network = None
                  /\ NetworkOfHost(u.host) # "" ) =>
                    /\ ret.profiles[i].network = <<NetworkOfHost(u.host)>>
                    /\ Len(u.segments) >= UsernameSegment(u.host) =>
                          ret.profiles[i].username = u.segments[UsernameSegment(u.host)]

----------------------------------------------------------------------------
(* Properties of the assembler (SpecAssembler)                              *)

Returned == json_resume # NONE

\* every extraction so far failed (None) or gave a dict
OnlyFailuresAndDicts ==
    \A i \in 1..Len(section_log) : section_log[i].result.data.t \in {"none", "dict"}

Failed(e) == e.result.data = PyNone
Succeeded(e) == e.result.data.t = "dict" /\ e.section \in DOMAIN e.result.data.v

Absent(field) == field.t = "none" \/ field = EMPTY_LIST

\* C12: whatever subset of the six extractions fails, the assembler returns a
\* record: the field of a section that succeeded is populated, the field of
\* a section that failed is absent, and the outcome is never None or a raise.
C12_PartialRecordReturned ==
    (Returned /\ OnlyFailuresAndDicts) =>
        /\ json_resume.kind = "record"
        /\ \A i \in 1..Len(section_log) :
               /\ Succeeded(section_log[i]) =>
                      ~Absent(json_resume.value.v[section_log[i].section])
               /\ Failed(section_log[i]) =>
                      Absent(json_resume.value.v[section_log[i].section])

\* the basics extraction gave a dict whose basics has no name
BasicsWithoutName ==
    /\ section_log # <<>>
    /\ section_log[1].result.data.t = "dict"
    /\ "basics" \in DOMAIN section_log[1].result.data.v
    /\ section_log[1].result.data.v["basics"].t = "dict"
    /\ "name" \notin DOMAIN section_log[1].result.data.v["basics"].v

\* C13: when the basics fragment cannot be made a Basics (it has no name),
\* the assembler returns a record whose basics is null and whose other
\* fields are those of the other sections.
C13_NamelessBasicsNulled ==
    (Returned /\ OnlyFailuresAndDicts /\ BasicsWithoutName) =>
        /\ json_resume.kind = "record"
        /\ json_resume.value.v["basics"] = PyNone
        /\ \A i \in 2..Len(section_log) :
               Succeeded(section_log[i]) =>
                   ~Absent(json_resume.value.v[section_log[i].section])

\* the six results merged in another order
RECURSIVE merged_upto(_, _)
merged_upto(order, n) ==
    IF n = 0 THEN EMPTY_RESUME
    ELSE merged(merged_upto(order, n - 1), section_log[order[n]].result.data)

\* C14: the assembled record is the same whatever the order in which the six
\* section results are merged.
C14_MergeOrderIrrelevant ==
    (Returned /\ OnlyFailuresAndDicts) =>
        \A order \in Permutations(1..Len(SECTIONS)) :
            \/ merged_upto(order, Len(SECTIONS)) = complete_resume
            \/ assembled(merged_upto(order, Len(SECTIONS))) = json_resume

\* C16: an extraction whose template is missing returns None without a call
\* to the engine; one whose engine call raised, or whose cleaned reply is no
\* JSON, returns None.
C16_ExtractionReturnsNone ==
    \A i \in 1..Len(section_log) :
        /\ section_log[i].section \notin templates =>
               /\ ~section_log[i].result.called
               /\ section_log[i].engine = NOT_CALLED
               /\ section_log[i].result.data = PyNone
        /\ section_log[i].engine.kind = "raises" => section_log[i].result.data = PyNone
        /\ (/\ section_log[i].engine.kind = "replies"
            /\ ~json_loads(cleaned_response(section_log[i].engine.text)).ok) =>
               section_log[i].result.data = PyNone

\* one run in which a template was missing, an engine call raised and a
\* reply was no JSON, and the assembler went on to its end
C16_EveryFailureSeen ==
    /\ Returned
    /\ section = Len(SECTIONS)
    /\ \A event \in {"no_template", "raised", "unparsable"} :
           \E i \in 1..Len(section_log) : section_log[i].result.event = event

----------------------------------------------------------------------------
(* Properties of the section transformers (SpecUtility)                     *)

ObjectsOnly(field) ==
    \/ field.t = "none"
    \/ field.t = "list" /\ \A i \in 1..Len(field.v) : field.v[i].t = "dict"

\* C15: in a record that leaves the section transformers every list-typed
\* field is absent or a list of objects; no bare string stays a list entry.
C15_ListFieldsHoldObjects ==
    fn \in {"transform_parsed_data", "_transform_parsed_data"} =>
        \A k \in LIST_FIELDS \cap DOMAIN ret.v : ObjectsOnly(ret.v[k])

----------------------------------------------------------------------------
(* Properties of the repository selection (SpecGithub)                      *)

\* the selection failed: no prompt, the engine raised, or the reply is no
\* JSON or no list of objects
SelectionFailed ==
    \/ selection.render \in {"raises", "None"}
    \/ selection.engine.kind = "raises"
    \/ /\ selection.engine.kind = "replies"
       /\ \E loaded \in {selection_loads(selection_text(selection.engine.text))} :
              \/ ~loaded.ok
              \/ loaded.value.t # "list"
              \/ \E i \in 1..Len(loaded.value.v) : loaded.value.v[i].t # "dict"

\* C20: when the selection fails in any of these ways the call returns the
\* first five entries of the list it was given, in the order given; the
\* result is a function of the list alone, so two runs return the same.
C20_FallbackIsFirstFive ==
    (github_pc = "done" /\ selection # NO_SELECTION /\ SelectionFailed) =>
        selected.value = [i \in 1..TOP_N |-> project_data(projects[i])]

\* a list of more than five, a reply that is no JSON, and the call returned
C20_UnparsableReplyFellBack ==
    /\ github_pc = "done"
    /\ Len(projects) > TOP_N
    /\ selection.engine.kind = "replies"
    /\ ~selection_loads(selection_text(selection.engine.text)).ok
    /\ Len(selected.value) = TOP_N

----------------------------------------------------------------------------
(* Normalisation after a failed section (SpecAssembler)                     *)

\* the merged dict without the keys that still hold None
without_none(resume) == [k \in {j \in DOMAIN resume : resume[j] # PyNone} |-> resume[k]]

\* one of the work, education, projects and awards extractions gave None
MappedSectionFailed ==
    \E i \in 1..Len(section_log) :
        /\ section_log[i].section \in {"work", "education", "projects", "awards"}
        /\ Failed(section_log[i])

\* C29: when a work, education, projects or awards extraction failed, the
\* fragments of the other sections still go through the section
\* transformers: the record returned is the one built from the mapped data.
C29_OthersStillNormalised ==
    (Returned /\ OnlyFailuresAndDicts /\ MappedSectionFailed) =>
        json_resume = json_resume_of(pdf_transformed_data(without_none(complete_resume)))

----------------------------------------------------------------------------
(* The size and the origin of the selection (SpecGithub)                    *)

\* C30: whatever the engine replies, the call returns at most five
\* repositories, each of them one of the list it was given.
C30_AtMostFiveFromInput ==
    github_pc = "done" =>
        /\ Len(selected.value) <= TOP_N
        /\ \A i \in 1..Len(selected.value) :
               \E j \in 1..Len(projects) :
                   get(selected.value[i].v, "name", PyNone) = get(projects[j].v, "name", PyNone)

----------------------------------------------------------------------------
(* The selection when the engine answered (SpecGithub)                      *)

\* the engine replied with a JSON list of objects
EngineAnswered ==
    /\ github_pc = "done"
    /\ selection # NO_SELECTION
    /\ selection.engine.kind = "replies"
    /\ ~SelectionFailed

ReplyItems == selection_loads(selection_text(selection.engine.text)).value.v

ReplyName(i) == get(ReplyItems[i].v, "name", EMPTY_STR)

\* the places of the reply that hold a name for the first time
FirstNamed ==
    {i \in 1..Len(ReplyItems) :
        truthy(ReplyName(i)) /\ \A j \in 1..(i - 1) : ReplyName(j) # ReplyName(i)}

Chosen ==
    [k \in 1..Cardinality(FirstNamed) |-> ReplyItems[ordered(FirstNamed, Len(ReplyItems))[k]]]

\* the repositories of the list not chosen, in the order of the list
NotChosen ==
    SelectSeq(all_project_data(projects),
              LAMBDA p : get(p.v, "name", EMPTY_STR) \notin names_of(Chosen))

\* C22: when the engine answers, the repositories returned have pairwise
\* distinct names, and fewer than five unique entries are completed with the
\* repositories not yet chosen, in the order of the list, up to five or to
\* the end of the list.
C22_DistinctAndBackfilled ==
    EngineAnswered =>
        /\ \A i, j \in 1..Len(selected.value) :
               i # j => get(selected.value[i].v, "name", EMPTY_STR)
                            # get(selected.value[j].v, "name", EMPTY_STR)
        /\ selected.value =
               IF Len(Chosen) < TOP_N
               THEN Chosen \o SubSeq(NotChosen, 1, Min2(TOP_N - Len(Chosen), Len(NotChosen)))
               ELSE Chosen

\* the engine named one repository twice and the call returned five
C22_DuplicateBackfilled ==
    /\ EngineAnswered
    /\ Cardinality(FirstNamed) < Len(ReplyItems)
    /\ Len(selected.value) = TOP_N

----------------------------------------------------------------------------
(* Date texts of no listed shape (SpecUtility)                              *)

\* C25: parse_date_range gives (None, None) for every text that is neither a
\* month range with a year, nor a range of two years, nor a text with
\* "onwards".
C25_OtherShapesGiveNone ==
    (/\ fn = "parse_date_range"
     /\ ~MonthRangeShape(arg.v)
     /\ ~YearRangeShape(arg.v)
     /\ \A i \in 1..Len(arg.v) : arg.v[i] # ONWARDS) =>
        ret = <<None, None>>

----------------------------------------------------------------------------
(* When the field-completion fallback runs *)

\* the reply is one JSON object with candidate_name, scores holding the four
\* categories, bonus_points, deductions, key_strengths and
\* areas_for_improvement
CompleteReply ==
    /\ reply.kind = "object" /\ ~reply.junk /\ ~reply.cut
    /\ \A k \in {"candidate_name", "scores", "bonus_points", "deductions",
                  "key_strengths", "areas_for_improvement"} : Has(reply.doc, k)
    /\ Get(reply.doc, "scores").t = "obj"
    /\ \A c \in CategorySet :
           /\ Has(Get(reply.doc, "scores").v, c)
           /\ Get(Get(reply.doc, "scores").v, c).t = "rec"

\* C23: the fallback runs exactly when candidate_name or scores is missing
\* from the object the engine returned; on a complete reply it does not run
\* and the dict that is evaluated is the engine's object.
C23_FallbackOnlyWhenMissing ==
    (Evaluated /\ reply.kind = "object" /\ ~reply.junk /\ ~reply.cut) =>
        /\ fallback_ran <=> (~Has(reply.doc, "candidate_name") \/ ~Has(reply.doc, "scores"))
        /\ CompleteReply => evaluation_dict = reply.doc

----------------------------------------------------------------------------
(* The merge of aliased entries *)

\* the reply is one object without nested objects: the pattern matches all
\* of it and the fallback works on the reply itself
FlatReply ==
    /\ reply.kind = "object" /\ ~reply.junk /\ ~reply.cut
    /\ \A i \in 1..Len(reply.doc) : reply.doc[i].t \in {"rec", "list"}

\* the top-level entries of the reply that carry a score for category c
SignalsFor(doc, c) ==
    {i \in 1..Len(doc) :
        /\ doc[i].t = "rec" /\ "score" \in DOMAIN doc[i].v
        /\ category_mapping(doc[i].k) = c}

MaxSignalled(doc, c) ==
    CHOOSE s \in {doc[i].v.score : i \in SignalsFor(doc, c)} :
        \A i \in SignalsFor(doc, c) : doc[i].v.score <= s

Reversed(doc) == [i \in 1..Len(doc) |-> doc[Len(doc) + 1 - i]]

\* the score the fallback gives category c on the object doc
MergedScore(doc, c) ==
    Get(Get(complete_missing_fields(self, doc).value, "scores").v, c).v.score

\* C24: in the fallback every top-level entry named in the alias table is
\* merged into its target category: the target's score is the largest of
\* the scores signalled for it, capped at the category's max (the fixed one
\* or the one the category ends with), and it is the same when the entries
\* come in the opposite order.
C24_AliasesMergedByMaximum ==
    (FallbackReturned /\ FlatReply) =>
        \A c \in {"self_projects", "production", "technical_skills"} :
            SignalsFor(reply.doc, c) # {} =>
                /\ Has(ScoresOfDict, c)
                /\ \/ Get(ScoresOfDict, c).v.score
                         = Min2(MaxSignalled(reply.doc, c), FixedMax(c))
                   \/ Get(ScoresOfDict, c).v.score
                         = Min2(MaxSignalled(reply.doc, c), Get(ScoresOfDict, c).v.max)
                /\ Get(ScoresOfDict, c).v.score = MergedScore(Reversed(reply.doc), c)

----------------------------------------------------------------------------
(* Improvements and the score/max ratio (SpecUtility)                       *)

\* the two score sets have the same score/max ratio in every category
SamePercentages(a, b) ==
    \A i \in 1..Len(Categories) : a[i].v.score * b[i].v.max = b[i].v.score * a[i].v.max

\* C26: the improvements derived from a score set are those derived from
\* every score set with the same four score/max percentages.
C26_ImprovementsFollowRatios ==
    fn = "_generate_improvements_from_scores" =>
        \A other \in ScoreSets :
            SamePercentages(arg.v, other) => generate_improvements_from_scores(other) = ret

----------------------------------------------------------------------------
(* Strengths and the enforced open-source score *)

\* the fallback returned and its rule pass capped the open-source score
CapApplied ==
    /\ FallbackReturned
    /\ Has(ScoresOfDict, "open_source")
    /\ HasKey(Get(ScoresOfDict, "open_source"), "evidence")
    /\ \E i \in 1..Len(Get(ScoresOfDict, "open_source").v.evidence) :
           Get(ScoresOfDict, "open_source").v.evidence[i] = CAP_SUFFIX[1]

\* C28: whenever the rule pass of the fallback capped the open-source score
\* at 10, the key_strengths the fallback returns hold no open-source
\* strength.
C28_NoStrengthWhenCapped ==
    CapApplied =>
        \A i \in 1..Len(Get(evaluation_dict, "key_strengths").v) :
            Get(evaluation_dict, "key_strengths").v[i] \notin OPEN_SOURCE_STRENGTHS

----------------------------------------------------------------------------
(* The repositories fetch_all_github_repos returns (SpecFetch)              *)

FetchDone == fetch_pc = "done"

\* the repository of the account that project p was built from
HeldAs(p) == {j \in 1..Len(account) : account[j].repo.v.name = p.v.name}

\* C21: no repository returned has zero commits of the account's owner.
C21_NoOwnerlessRepository ==
    FetchDone =>
        \A i \in 1..Len(fetch_returned.value) :
            \A j \in HeldAs(fetch_returned.value[i]) : account[j].owner_commits > 0

\* the repositories whose contributors request was refused or raised
ContributorsFailed == {i \in 1..Len(fetch_log) : fetch_log[i] \in {"refused", "raised"}}

\* the repositories of the listing the loop does not skip
NotSkipped == {j \in 1..Len(account) : ~skipped(account[j].repo.v)}

\* C27: when the contributors of a repository cannot be fetched, the
\* repository is returned with contributor_count 1 and the type
\* self_project, and every other repository the loop does not skip is
\* returned too.
C27_FailedFetchKeepsRepository ==
    (FetchDone /\ ContributorsFailed # {}) =>
        /\ \A i \in ContributorsFailed :
               \E k \in 1..Len(fetch_returned.value) :
                   /\ i \in HeldAs(fetch_returned.value[k])
                   /\ fetch_returned.value[k].v.contributor_count = Num(1)
                   /\ fetch_returned.value[k].v.project_type = Text("self_project")
        /\ \A j \in NotSkipped :
               \E k \in 1..Len(fetch_returned.value) : j \in HeldAs(fetch_returned.value[k])

====
